---- MODULE Spec2Model ----
(***************************************************************************)
(* Segment post-processing pipeline of the caption editor's transcriber:   *)
(* src/transcribe/asr_results_to_captions.py.                              *)
(*                                                                         *)
(* Times are integer ticks.  A Python str is a sequence of one-character   *)
(* strings, so that " ".join(...) and .strip() are computed, not assumed.  *)
(***************************************************************************)
EXTENDS Integers, Sequences, FiniteSets, Bags, TLC

VARIABLES
    arg,            \* the segment list the last call was given (the first argument)
    segments,       \* the local `segments`: the list a call returned, or the input
    last,           \* the function that returned last ("none" before any call)
    twice,          \* TRUE when that call was the second one in a row
    pc,             \* position inside post_process_asr_segments ("idle" outside)
    input,          \* the argument post_process_asr_segments was called with
    params,         \* chunk_size, overlap, gap_threshold, max_duration, is_whisper
    raised,         \* TRUE once an exception has propagated out of a call
    output          \* the TranscriptSegment list post_process_asr_segments returned

vars == <<arg, segments, last, twice, pc, input, params, raised, output>>

(***************************************************************************)
(* Bounds of the model.                                                    *)
(***************************************************************************)
MaxTime == 3        \* times are 0..MaxTime
MaxWords == 3       \* words in a sentence-like segment
MaxSegs == 3        \* segments in a list of one-word segments
MaxThreshold == 2   \* max_gap_seconds and max_duration_seconds are 0..MaxThreshold
MaxChunk == 2       \* chunk_size is 1..MaxChunk, overlap 0..chunk_size
MaxItems == 2
MaxCalls == 2       \* calls of post_process_asr_segments with the same arguments       \* records in a list of a raw payload

(***************************************************************************)
(* Python helpers.                                                         *)
(***************************************************************************)
WordTimestamp(word, start, end) == [word |-> word, start |-> start, end |-> end]

ASRSegment(text, start, end, words) ==
    [text |-> text, start |-> start, end |-> end, words |-> words]

RECURSIVE lstrip(_)
lstrip(t) == IF t # <<>> /\ Head(t) = " " THEN lstrip(Tail(t)) ELSE t

RECURSIVE rstrip(_)
rstrip(t) ==
    IF t # <<>> /\ t[Len(t)] = " " THEN rstrip(SubSeq(t, 1, Len(t) - 1)) ELSE t

\* str.strip()
strip(t) == rstrip(lstrip(t))

\* " ".join(w.word for w in words)
RECURSIVE join(_)
join(words) ==
    IF words = <<>> THEN <<>>
    ELSE IF Len(words) = 1 THEN words[1].word
    ELSE words[1].word \o <<" ">> \o join(Tail(words))

\* one step of the stable sort: s goes after every element whose key is <= its own
RECURSIVE insert_by_start(_, _)
insert_by_start(s, sorted_segs) ==
    IF sorted_segs = <<>> THEN <<s>>
    ELSE IF Head(sorted_segs).start <= s.start
         THEN <<Head(sorted_segs)>> \o insert_by_start(s, Tail(sorted_segs))
         ELSE <<s>> \o sorted_segs

\* sorted(segments, key=lambda s: s.start)  (Python's sort is stable)
RECURSIVE sorted_by_start(_)
sorted_by_start(segs) ==
    IF segs = <<>> THEN <<>>
    ELSE insert_by_start(segs[Len(segs)],
                         sorted_by_start(SubSeq(segs, 1, Len(segs) - 1)))

(***************************************************************************)
(* group_segments_by_gap                                                   *)
(***************************************************************************)
\* all_words = []; for seg in current_group_segs: all_words.extend(seg.words)
RECURSIVE all_words_of(_)
all_words_of(current_group_segs) ==
    IF current_group_segs = <<>> THEN <<>>
    ELSE Head(current_group_segs).words \o all_words_of(Tail(current_group_segs))

\* a merge that takes the words of the group's first segment only
merge_group_first_words(current_group_segs) ==
    ASRSegment(strip(join(current_group_segs[1].words)),
               current_group_segs[1].start,
               current_group_segs[Len(current_group_segs)].end,
               current_group_segs[1].words)

RECURSIVE latest_end(_)
latest_end(current_group_segs) ==
    IF Len(current_group_segs) = 1 THEN current_group_segs[1].end
    ELSE LET rest == latest_end(Tail(current_group_segs))
         IN  IF Head(current_group_segs).end >= rest
             THEN Head(current_group_segs).end ELSE rest

\* a merge that ends the group at the latest end in it, not at its last segment's
merge_group_latest_end(current_group_segs) ==
    ASRSegment(strip(join(all_words_of(current_group_segs))),
               current_group_segs[1].start,
               latest_end(current_group_segs),
               all_words_of(current_group_segs))

\* the ASRSegment a finished group becomes
merge_group(current_group_segs) ==
    LET all_words == all_words_of(current_group_segs)
    IN  ASRSegment(strip(join(all_words)),
                   current_group_segs[1].start,
                   current_group_segs[Len(current_group_segs)].end,
                   all_words)

\* a comparison that closes the group at a gap equal to the threshold
under_gap(gap, max_gap_seconds) == gap < max_gap_seconds

\* if gap <= max_gap_seconds
within_gap(gap, max_gap_seconds) == gap <= max_gap_seconds

\* for i in range(1, len(sorted_segs)), then the final group (i is 1-based here)
RECURSIVE group_loop(_, _, _, _, _)
group_loop(sorted_segs, i, result, current_group_segs, max_gap_seconds) ==
    IF i > Len(sorted_segs)
    THEN IF current_group_segs # <<>>
         THEN Append(result, merge_group(current_group_segs))
         ELSE result
    ELSE LET prev_seg == sorted_segs[i - 1]
             curr_seg == sorted_segs[i]
             gap == curr_seg.start - prev_seg.end
         IN  IF within_gap(gap, max_gap_seconds)
             THEN group_loop(sorted_segs, i + 1, result,
                             Append(current_group_segs, curr_seg), max_gap_seconds)
             ELSE group_loop(sorted_segs, i + 1,
                             IF current_group_segs # <<>>
                             THEN Append(result, merge_group(current_group_segs))
                             ELSE result,
                             <<curr_seg>>, max_gap_seconds)

group_segments_by_gap(segs, max_gap_seconds) ==
    IF segs = <<>> THEN <<>>
    ELSE LET sorted_segs == sorted_by_start(segs)
         IN  group_loop(sorted_segs, 2, <<>>, <<sorted_segs[1]>>, max_gap_seconds)

(***************************************************************************)
(* split_segments_by_word_gap                                              *)
(***************************************************************************)
\* a comparison that also splits at a gap equal to the threshold
at_or_over_gap(gap, max_gap_seconds) == gap >= max_gap_seconds

\* if gap > max_gap_seconds
over_gap(gap, max_gap_seconds) == gap > max_gap_seconds

\* split_indices: i + 1 (0-based) for every i with a gap over the threshold
RECURSIVE split_indices_from(_, _, _)
split_indices_from(words, i, max_gap_seconds) ==
    IF i >= Len(words) THEN <<>>
    ELSE LET current_word == words[i]
             next_word == words[i + 1]
             gap == next_word.start - current_word.end
         IN  (IF over_gap(gap, max_gap_seconds) THEN <<i>> ELSE <<>>)
             \o split_indices_from(words, i + 1, max_gap_seconds)

\* a slice that stops one word early
slice_short(words, start_idx, end_idx) == SubSeq(words, start_idx + 1, end_idx - 1)

\* sub_words = segment.words[start_idx:end_idx]
slice(words, start_idx, end_idx) == SubSeq(words, start_idx + 1, end_idx)

\* the end of the word that ends last
RECURSIVE latest_word_end(_)
latest_word_end(sub_words) ==
    IF Len(sub_words) = 1 THEN sub_words[1].end
    ELSE LET rest == latest_word_end(Tail(sub_words))
         IN  IF Head(sub_words).end >= rest THEN Head(sub_words).end ELSE rest

\* a segment that ends where the last of its words to end does
sub_segment_latest_end(sub_words) ==
    ASRSegment(strip(join(sub_words)),
               sub_words[1].start,
               latest_word_end(sub_words),
               sub_words)

\* the segment built from a slice of the words
sub_segment(sub_words) ==
    ASRSegment(strip(join(sub_words)),
               sub_words[1].start,
               sub_words[Len(sub_words)].end,
               sub_words)

\* for i in range(len(split_indices) - 1): words[split_indices[i]:split_indices[i+1]]
RECURSIVE split_at(_, _, _)
split_at(words, split_indices, i) ==
    IF i >= Len(split_indices) THEN <<>>
    ELSE LET start_idx == split_indices[i]
             end_idx == split_indices[i + 1]
             sub_words == slice(words, start_idx, end_idx)
         IN  (IF sub_words = <<>> THEN <<>> ELSE <<sub_segment(sub_words)>>)
             \o split_at(words, split_indices, i + 1)

\* a loop body that skips a segment of at most one word without appending it
split_one_by_word_gap_skipping(segment, max_gap_seconds) ==
    IF Len(segment.words) <= 1 THEN <<>>
    ELSE LET split_indices == split_indices_from(segment.words, 1, max_gap_seconds)
         IN  IF split_indices = <<>> THEN <<segment>>
             ELSE split_at(segment.words,
                           <<0>> \o split_indices \o <<Len(segment.words)>>, 1)

\* what one segment of the input contributes to the result
split_one_by_word_gap(segment, max_gap_seconds) ==
    IF Len(segment.words) <= 1 THEN <<segment>>
    ELSE LET split_indices == split_indices_from(segment.words, 1, max_gap_seconds)
         IN  IF split_indices = <<>> THEN <<segment>>
             ELSE split_at(segment.words,
                           <<0>> \o split_indices \o <<Len(segment.words)>>, 1)

RECURSIVE split_segments_by_word_gap(_, _)
split_segments_by_word_gap(segs, max_gap_seconds) ==
    IF segs = <<>> THEN <<>>
    ELSE split_one_by_word_gap(Head(segs), max_gap_seconds)
         \o split_segments_by_word_gap(Tail(segs), max_gap_seconds)

(***************************************************************************)
(* split_long_segments                                                     *)
(***************************************************************************)
\* a duration measured to the word's start instead of its end
potential_duration_to_start(word, current_words) == word.start - current_words[1].start

\* a duration measured from the start of the last word taken, not of the first
potential_duration_from_last(word, current_words) ==
    word.end - current_words[Len(current_words)].start

\* potential_duration = word.end - current_words[0].start
potential_duration_of(word, current_words) == word.end - current_words[1].start

\* for word in segment.words, then the remaining words as the final sub-segment
RECURSIVE long_loop(_, _, _, _)
long_loop(words, i, current_words, max_duration_seconds) ==
    IF i > Len(words)
    THEN IF current_words # <<>> THEN <<sub_segment(current_words)>> ELSE <<>>
    ELSE LET word == words[i]
         IN  IF current_words # <<>>
             THEN LET potential_duration == potential_duration_of(word, current_words)
                  IN  IF potential_duration > max_duration_seconds
                      THEN <<sub_segment(current_words)>>
                           \o long_loop(words, i + 1, <<word>>, max_duration_seconds)
                      ELSE long_loop(words, i + 1, Append(current_words, word),
                                     max_duration_seconds)
             ELSE long_loop(words, i + 1, Append(current_words, word),
                            max_duration_seconds)

\* a loop body without the pass-through of segments of at most one word
split_one_long_any_words(segment, max_duration_seconds) ==
    LET duration == segment.end - segment.start
    IN  IF duration <= max_duration_seconds THEN <<segment>>
        ELSE long_loop(segment.words, 1, <<>>, max_duration_seconds)

split_one_long(segment, max_duration_seconds) ==
    LET duration == segment.end - segment.start
    IN  IF duration <= max_duration_seconds THEN <<segment>>
        ELSE IF Len(segment.words) <= 1 THEN <<segment>>
        ELSE long_loop(segment.words, 1, <<>>, max_duration_seconds)

RECURSIVE split_long_segments(_, _)
split_long_segments(segs, max_duration_seconds) ==
    IF segs = <<>> THEN <<>>
    ELSE split_one_long(Head(segs), max_duration_seconds)
         \o split_long_segments(Tail(segs), max_duration_seconds)

(***************************************************************************)
(* resolve_overlap_conflicts                                               *)
(***************************************************************************)
Abs(x) == IF x < 0 THEN -x ELSE x

min(a, b) == IF a <= b THEN a ELSE b

\* int(a / b), b # 0: Python's int() truncates towards zero
int_div(a, b) ==
    IF (a < 0) = (b < 0) THEN Abs(a) \div Abs(b) ELSE -(Abs(a) \div Abs(b))

\* prev_chunk_idx = int(prev_segment.start / (chunk_size - overlap)), likewise curr
chunk_idx_of(segment, chunk_size, overlap) == int_div(segment.start, chunk_size - overlap)

\* prev_dist / curr_dist: distance of a segment to the nearer edge of the chunk
\* window inferred from its start
dist_to_edge(segment, chunk_size, overlap) ==
    LET chunk_idx == chunk_idx_of(segment, chunk_size, overlap)
        chunk_start == chunk_idx * (chunk_size - overlap)
        chunk_end == chunk_start + chunk_size
    IN  min(segment.start - chunk_start, chunk_end - segment.end)

\* what a call gives back: a returned list, or an exception that propagates
Returned(value) == [raised |-> FALSE, value |-> value]

Raised == [raised |-> TRUE, value |-> <<>>]

\* a comparison that keeps the segment nearer to its chunk edge
nearer_wins(curr_dist, prev_dist) == curr_dist < prev_dist

\* a comparison that lets the candidate win a tie
candidate_wins_ties(curr_dist, prev_dist) == curr_dist >= prev_dist

\* if curr_dist > prev_dist: the candidate replaces the last accepted segment
candidate_wins(curr_dist, prev_dist) == curr_dist > prev_dist

\* a test against the start of the last accepted segment
starts_before_previous(segment, prev_segment) == segment.start < prev_segment.start

\* if segment.start < prev_segment.end
overlaps_previous(segment, prev_segment) == segment.start < prev_segment.end


\* for segment in sorted_segments
RECURSIVE resolve_loop(_, _, _, _, _)
resolve_loop(sorted_segments, i, result, chunk_size, overlap) ==
    IF i > Len(sorted_segments) THEN Returned(result)
    ELSE LET segment == sorted_segments[i]
         IN  IF result = <<>>
             THEN resolve_loop(sorted_segments, i + 1, <<segment>>, chunk_size, overlap)
             ELSE LET prev_segment == result[Len(result)]
                  IN  IF overlaps_previous(segment, prev_segment)
                      THEN IF chunk_size - overlap = 0
                           THEN Raised   \* ZeroDivisionError
                           ELSE LET prev_dist == dist_to_edge(prev_segment, chunk_size, overlap)
                                    curr_dist == dist_to_edge(segment, chunk_size, overlap)
                                IN  resolve_loop(sorted_segments, i + 1,
                                        IF candidate_wins(curr_dist, prev_dist)
                                        THEN [result EXCEPT ![Len(result)] = segment]
                                        ELSE result,
                                        chunk_size, overlap)
                      ELSE resolve_loop(sorted_segments, i + 1,
                                        Append(result, segment), chunk_size, overlap)

\* a variant that divides by the stride before it looks at the list
resolve_overlap_conflicts_stride_first(segs, chunk_size, overlap) ==
    IF chunk_size - overlap = 0 THEN Raised   \* ZeroDivisionError
    ELSE IF segs = <<>> THEN Returned(<<>>)
    ELSE resolve_loop(sorted_by_start(segs), 1, <<>>, chunk_size, overlap)

resolve_overlap_conflicts(segs, chunk_size, overlap) ==
    IF segs = <<>> THEN Returned(<<>>)
    ELSE resolve_loop(sorted_by_start(segs), 1, <<>>, chunk_size, overlap)

(***************************************************************************)
(* asr_segments_to_transcript_segments                                     *)
(***************************************************************************)
TranscriptWord(text, startTime, endTime) ==
    [text |-> text, startTime |-> startTime, endTime |-> endTime]

\* Optional[List[TranscriptWord]]: None is the empty tuple, a list l is <<l>>
None == <<>>

Some(l) == <<l>>

\* [TranscriptWord(...) for w in segment.words] if segment.words else None
transcript_words(words) ==
    IF words # <<>>
    THEN Some([i \in 1..Len(words) |->
                  TranscriptWord(words[i].word, words[i].start, words[i].end)])
    ELSE None

\* a record that carries the segment's text as it is
TranscriptSegmentUntrimmed(segment) ==
    [id |-> "", startTime |-> segment.start, endTime |-> segment.end,
     text |-> segment.text, words |-> transcript_words(segment.words),
     speakerName |-> None, rating |-> None, timestamp |-> None,
     verified |-> None, asrModel |-> None]

TranscriptSegment(segment) ==
    [id |-> "", startTime |-> segment.start, endTime |-> segment.end,
     text |-> strip(segment.text), words |-> transcript_words(segment.words),
     speakerName |-> None, rating |-> None, timestamp |-> None,
     verified |-> None, asrModel |-> None]

RECURSIVE asr_segments_to_transcript_segments(_)
asr_segments_to_transcript_segments(segs) ==
    IF segs = <<>> THEN <<>>
    ELSE (IF strip(Head(segs).text) = <<>> THEN <<>>
          ELSE <<TranscriptSegment(Head(segs))>>)
         \o asr_segments_to_transcript_segments(Tail(segs))

(***************************************************************************)
(* asr_segments_to_vtt_cues (asr_results_to_vtt.py); VTTCue is an alias of *)
(* TranscriptSegment, whose fields take either spelling of their names.    *)
(***************************************************************************)
\* VTTCue(id="", start_time=segment.start, end_time=segment.end, text=...): the
\* fields it does not name take their default, None
VTTCue(segment) ==
    [id |-> "", startTime |-> segment.start, endTime |-> segment.end,
     text |-> strip(segment.text), words |-> None,
     speakerName |-> None, rating |-> None, timestamp |-> None,
     verified |-> None, asrModel |-> None]

RECURSIVE asr_segments_to_vtt_cues(_)
asr_segments_to_vtt_cues(segs) ==
    IF segs = <<>> THEN <<>>
    ELSE (IF strip(Head(segs).text) = <<>> THEN <<>>
          ELSE <<VTTCue(Head(segs))>>)
         \o asr_segments_to_vtt_cues(Tail(segs))

(***************************************************************************)
(* zip_words_in_overlapping_segments (the word-level merge of two          *)
(* overlapping segments of adjacent chunks).                               *)
(***************************************************************************)
\* an ASRSegment that carries the start of the chunk it was transcribed from
\* (None when the producer did not tag it)
TaggedSegment(text, start, end, words, chunk_start) ==
    [text |-> text, start |-> start, end |-> end, words |-> words,
     chunk_start |-> chunk_start]

max(a, b) == IF a >= b THEN a ELSE b

\* twice the cut point (kept doubled, so that it stays an integer): the middle of
\* the chunks' overlap region [later chunk's start, earlier chunk's end] when both
\* segments are tagged, else of [seg_b.start, seg_a.end]
twice_midpoint(seg_a, seg_b, chunk_size) ==
    IF seg_a.chunk_start # None /\ seg_b.chunk_start # None
    THEN max(seg_a.chunk_start[1], seg_b.chunk_start[1])
           + min(seg_a.chunk_start[1], seg_b.chunk_start[1]) + chunk_size
    ELSE seg_b.start + seg_a.end

\* [w for w in words if keep(w)], in order
RECURSIVE words_before(_, _)
words_before(words, twice_mid) ==
    IF words = <<>> THEN <<>>
    ELSE (IF 2 * Head(words).start < twice_mid THEN <<Head(words)>> ELSE <<>>)
         \o words_before(Tail(words), twice_mid)

RECURSIVE words_from(_, _)
words_from(words, twice_mid) ==
    IF words = <<>> THEN <<>>
    ELSE (IF 2 * Head(words).start >= twice_mid THEN <<Head(words)>> ELSE <<>>)
         \o words_from(Tail(words), twice_mid)

\* near-identical words: same text, starts within the tolerance
DedupTolerance == 0

near_identical(w, v) == w.word = v.word /\ Abs(w.start - v.start) <= DedupTolerance

\* the words of kept_b that no word of kept_a duplicates
RECURSIVE without_duplicates(_, _)
without_duplicates(kept_b, kept_a) ==
    IF kept_b = <<>> THEN <<>>
    ELSE (IF \E i \in DOMAIN kept_a : near_identical(Head(kept_b), kept_a[i])
          THEN <<>> ELSE <<Head(kept_b)>>)
         \o without_duplicates(Tail(kept_b), kept_a)

\* one step of the stable sort of words by start
RECURSIVE insert_word(_, _)
insert_word(w, sorted_words) ==
    IF sorted_words = <<>> THEN <<w>>
    ELSE IF Head(sorted_words).start <= w.start
         THEN <<Head(sorted_words)>> \o insert_word(w, Tail(sorted_words))
         ELSE <<w>> \o sorted_words

RECURSIVE sorted_words_by_start(_)
sorted_words_by_start(words) ==
    IF words = <<>> THEN <<>>
    ELSE insert_word(words[Len(words)],
                     sorted_words_by_start(SubSeq(words, 1, Len(words) - 1)))

\* the merged segment's end: test_zip_words_in_overlapping_segments asserts
\* result.end == 40.0, the end of the segments merged (seg2.end), where the last
\* merged word ends at 36.0
merged_end(seg_a, seg_b) == max(seg_a.end, seg_b.end)

zip_words_in_overlapping_segments(seg_a, seg_b, chunk_size, overlap) ==
    LET twice_mid == twice_midpoint(seg_a, seg_b, chunk_size)
        kept_a == words_before(seg_a.words, twice_mid)
        kept_b == words_from(seg_b.words, twice_mid)
        merged == sorted_words_by_start(kept_a \o without_duplicates(kept_b, kept_a))
    IN  IF merged = <<>>
        THEN TaggedSegment(<<>>, seg_a.start, seg_b.end, <<>>, seg_a.chunk_start)
        ELSE TaggedSegment(strip(join(merged)), merged[1].start,
                           merged_end(seg_a, seg_b), merged, seg_a.chunk_start)

(***************************************************************************)
(* The inputs the calls are made on.                                       *)
(***************************************************************************)
Thresholds == 0..MaxThreshold

\* intervals within 0..T, start <= end, whose length is in lens
Intervals(T, lens) == {p \in (0..T) \X (0..T) : p[2] - p[1] \in lens}

SeqsUpTo(S, n) == UNION {[1..k -> S] : k \in 0..n}

PlainText == <<"a">>

\* word texts: plain, with a leading space (Whisper), with a trailing space, empty
WordTexts == {PlainText, <<" ", "b">>, <<"c", " ">>, <<>>}

\* segment texts as an adapter sets them, independently of the words
SegmentTexts == {<<"s">>, <<" ">>}

\* a segment's bounds: the whole time line (as a sentence-level adapter may set
\* them) or those of its words (as after a split or a merge)
BoundsFor(T, words) ==
    {<<0, T>>} \cup
    (IF words = <<>> THEN {} ELSE {<<words[1].start, words[Len(words)].end>>})

\* one sentence-like segment holding up to n short words in any time order
SentenceListsOf(T, n) ==
    {<<ASRSegment(<<"s">>, x[2][1], x[2][2], x[1])>> :
        x \in {y \in SeqsUpTo({WordTimestamp(PlainText, p[1], p[2]) :
                                  p \in Intervals(T, {0, 1})}, n)
                     \X ((0..T) \X (0..T)) : y[2] \in BoundsFor(T, y[1])}}

\* one segment of two words a tick apart, with every combination of texts
TextLists ==
    {<<ASRSegment(x[1], 0, 1, <<WordTimestamp(x[2], 0, 0), WordTimestamp(x[3], 1, 1)>>)>> :
        x \in SegmentTexts \X WordTexts \X WordTexts}

\* a sentence of two short words in time order: its text and bounds are its words'
Sentence(p, q) ==
    ASRSegment(<<"a", " ", "b">>, p[1], q[2],
               <<WordTimestamp(PlainText, p[1], p[2]), WordTimestamp(<<"b">>, q[1], q[2])>>)

\* two such sentences, in either order, overlapping or not
SentencePairListsOf(T) ==
    {<<Sentence(x[1], x[2]), Sentence(x[3], x[4])>> :
        x \in {y \in Intervals(T, {0, 1}) \X Intervals(T, {0, 1})
                     \X Intervals(T, {0, 1}) \X Intervals(T, {0, 1}) :
                  y[1][2] <= y[2][1] /\ y[3][2] <= y[4][1]}}

\* Whisper-style lists: up to n one-word segments, in any order, overlapping or not
WordSegment(p) ==
    ASRSegment(PlainText, p[1], p[2], <<WordTimestamp(PlainText, p[1], p[2])>>)

WordSegmentListsOf(T, n) == SeqsUpTo({WordSegment(p) : p \in Intervals(T, 0..T)}, n)

\* the regression scenario of test_resolve_overlap_preserves_words_only_in_second_chunk,
\* in hundredths of a second: chunk 1 heard "The uh", chunk 2 the whole phrase
seg_chunk1 ==
    ASRSegment(<<"T", "h", "e", " ", "u", "h">>, 5720, 5792,
               <<WordTimestamp(<<"T", "h", "e">>, 5720, 5742),
                 WordTimestamp(<<"u", "h">>, 5758, 5792)>>)

seg_chunk2 ==
    ASRSegment(<<"T", "h", "e", " ", "u", "h", " ", "s", "u", "r", "f", "a", "c", "e", " ", "i", "s", " ", "f", "i", "n", "e", " ", "a", "n", "d", " ", "p", "o", "w", "d", "e", "r", "y", ".">>, 5716, 6196,
               <<WordTimestamp(<<"T", "h", "e">>, 5720, 5736),
                 WordTimestamp(<<"u", "h">>, 5760, 5792),
                 WordTimestamp(<<"s", "u", "r", "f", "a", "c", "e">>, 5996, 6052),
                 WordTimestamp(<<"i", "s">>, 6052, 6068),
                 WordTimestamp(<<"f", "i", "n", "e">>, 6068, 6092),
                 WordTimestamp(<<"a", "n", "d">>, 6092, 6116),
                 WordTimestamp(<<"p", "o", "w", "d", "e", "r", "y", ".">>, 6116, 6196)>>)

RegressionLists == {<<seg_chunk1, seg_chunk2>>}

RegressionGeometry == <<6000, 1000>>

InputLists ==
    SentenceListsOf(MaxTime, MaxWords) \cup TextLists
        \cup SentencePairListsOf(MaxTime)
        \cup WordSegmentListsOf(MaxTime, MaxSegs) \cup RegressionLists

\* the lists post_process_asr_segments is called on: the same shapes, one size down
PipelineLists ==
    SentenceListsOf(MaxTime - 1, MaxWords - 1) \cup TextLists
        \cup WordSegmentListsOf(MaxTime - 1, MaxSegs - 1)

\* chunk geometries <<chunk_size, overlap>>: chunk_size > overlap >= 0, and the
\* degenerate chunk_size = overlap, which the command line does not exclude
Geometries == {g \in (1..MaxChunk) \X (0..MaxChunk) : g[2] <= g[1]}

\* the geometries a first call resolves a list under: the regression scenario
\* under its own
GeometriesFor(segs) ==
    IF segs \in RegressionLists THEN {RegressionGeometry} ELSE Geometries

NoParams ==
    [chunk_size |-> 0, overlap |-> 0, gap_threshold |-> 0, max_duration |-> 0,
     is_whisper |-> FALSE]

(***************************************************************************)
(* The calls: each stage called on a list, and then called once more on    *)
(* what it returned, with the same arguments.                              *)
(***************************************************************************)
Init ==
    /\ segments \in InputLists
    /\ arg = <<>>
    /\ last = "none"
    /\ twice = FALSE
    /\ params = NoParams
    /\ raised = FALSE
    /\ pc = "idle"
    /\ input = <<>>
    /\ output = <<>>

\* a first call, or the same call again on the result
MayCall(fn) ==
    /\ pc = "idle"
    /\ ~raised
    /\ last = "none" \/ (last = fn /\ ~twice)

CallReturns(fn, value) ==
    /\ arg' = segments
    /\ segments' = value
    /\ last' = fn
    /\ twice' = (last = fn)
    /\ UNCHANGED <<pc, input, output, raised>>

CallGroupSegmentsByGap ==
    /\ MayCall("group_segments_by_gap")
    /\ \E max_gap_seconds \in IF last = "none" THEN Thresholds ELSE {params.gap_threshold} :
        /\ params' = [params EXCEPT !.gap_threshold = max_gap_seconds]
        /\ CallReturns("group_segments_by_gap",
                       group_segments_by_gap(segments, max_gap_seconds))

CallSplitSegmentsByWordGap ==
    /\ MayCall("split_segments_by_word_gap")
    /\ \E max_gap_seconds \in IF last = "none" THEN Thresholds ELSE {params.gap_threshold} :
        /\ params' = [params EXCEPT !.gap_threshold = max_gap_seconds]
        /\ CallReturns("split_segments_by_word_gap",
                       split_segments_by_word_gap(segments, max_gap_seconds))

CallSplitLongSegments ==
    /\ MayCall("split_long_segments")
    /\ \E max_duration_seconds \in IF last = "none" THEN Thresholds ELSE {params.max_duration} :
        /\ params' = [params EXCEPT !.max_duration = max_duration_seconds]
        /\ CallReturns("split_long_segments",
                       split_long_segments(segments, max_duration_seconds))

CallResolveOverlapConflicts ==
    /\ MayCall("resolve_overlap_conflicts")
    /\ \E g \in IF last = "none" THEN GeometriesFor(segments)
                ELSE {<<params.chunk_size, params.overlap>>} :
        /\ params' = [params EXCEPT !.chunk_size = g[1], !.overlap = g[2]]
        /\ LET r == resolve_overlap_conflicts(segments, g[1], g[2])
           IN  /\ arg' = segments
               /\ segments' = r.value
               /\ raised' = r.raised
               /\ last' = "resolve_overlap_conflicts"
               /\ twice' = (last = "resolve_overlap_conflicts")
               /\ UNCHANGED <<pc, input, output>>

Next ==
    \/ CallGroupSegmentsByGap
    \/ CallSplitSegmentsByWordGap
    \/ CallSplitLongSegments
    \/ CallResolveOverlapConflicts

Spec == Init /\ [][Next]_vars

(***************************************************************************)
(* post_process_asr_segments, statement by statement.                      *)
(***************************************************************************)
PipelineParams ==
    {[chunk_size |-> g[1], overlap |-> g[2], gap_threshold |-> t, max_duration |-> d,
      is_whisper |-> w] :
        g \in Geometries, t \in Thresholds, d \in Thresholds, w \in BOOLEAN}

PipelineInit ==
    /\ input \in PipelineLists
    /\ segments = input
    /\ params \in PipelineParams
    /\ pc = "step1"
    /\ arg = <<>>
    /\ last = "none"
    /\ twice = FALSE
    /\ raised = FALSE
    /\ output = <<>>

StatementReturns(fn, value, next_pc) ==
    /\ arg' = segments
    /\ segments' = value
    /\ last' = fn
    /\ pc' = next_pc
    /\ UNCHANGED <<twice, input, params, raised, output>>

\* segments = resolve_overlap_conflicts(segments, chunk_size, overlap)
Step1ResolveOverlaps ==
    /\ pc = "step1"
    /\ LET r == resolve_overlap_conflicts(segments, params.chunk_size, params.overlap)
       IN  IF r.raised
           THEN /\ raised' = TRUE
                /\ pc' = "raised"
                /\ UNCHANGED <<arg, segments, last, twice, input, params, output>>
           ELSE StatementReturns("resolve_overlap_conflicts", r.value, "step2")

\* if is_whisper: segments = group_segments_by_gap(segments, max_gap_seconds=gap_threshold)
Step2GroupByGap ==
    /\ pc = "step2"
    /\ params.is_whisper
    /\ StatementReturns("group_segments_by_gap",
                        group_segments_by_gap(segments, params.gap_threshold), "step3")

\* else: segments = split_segments_by_word_gap(segments, max_gap_seconds=gap_threshold)
Step2SplitByWordGap ==
    /\ pc = "step2"
    /\ ~params.is_whisper
    /\ StatementReturns("split_segments_by_word_gap",
                        split_segments_by_word_gap(segments, params.gap_threshold), "step3")

\* a third statement that passes gap_threshold where max_duration belongs
Step3SplitLongByGapThreshold ==
    /\ pc = "step3"
    /\ StatementReturns("split_long_segments",
                        split_long_segments(segments, params.gap_threshold), "step4")

\* segments = split_long_segments(segments, max_duration_seconds=max_duration)
Step3SplitLong ==
    /\ pc = "step3"
    /\ StatementReturns("split_long_segments",
                        split_long_segments(segments, params.max_duration), "step4")

\* a statement that empties the caller's list while it converts it
Step4ConvertConsuming ==
    /\ pc = "step4"
    /\ output' = asr_segments_to_transcript_segments(segments)
    /\ pc' = "done"
    /\ input' = [input EXCEPT !.segments = <<>>]
    /\ UNCHANGED <<arg, segments, last, twice, params, raised>>

\* return asr_segments_to_transcript_segments(segments)
Step4Convert ==
    /\ pc = "step4"
    /\ output' = asr_segments_to_transcript_segments(segments)
    /\ pc' = "done"
    /\ UNCHANGED <<arg, segments, last, twice, input, params, raised>>

PipelineNext ==
    \/ Step1ResolveOverlaps
    \/ Step2GroupByGap
    \/ Step2SplitByWordGap
    \/ Step3SplitLong
    \/ Step4Convert

PipelineSpec == PipelineInit /\ [][PipelineNext]_vars

(***************************************************************************)
(* A caller that calls post_process_asr_segments several times with the    *)
(* same list object and the same parameters, and in between calls it with  *)
(* other parameters, or calls a stage, on that same list.  input is the    *)
(* caller's frame: the list it passes (by reference), the parameters, the  *)
(* outcomes of its calls so far, and the number of other calls made.       *)
(***************************************************************************)
RerunInit ==
    /\ \E l \in PipelineLists, p \in PipelineParams :
        /\ input = [segments |-> l, params |-> p, results |-> <<>>, others |-> 0]
        /\ segments = l
        /\ params = p
    /\ pc = "step1"
    /\ arg = <<>>
    /\ last = "none"
    /\ twice = FALSE
    /\ raised = FALSE
    /\ output = <<>>

\* the call returns, or its exception reaches the caller; twice marks a call whose
\* outcome the caller does not compare
ReturnToCaller ==
    /\ pc \in {"done", "raised"}
    /\ input' = IF twice THEN input
                ELSE [input EXCEPT !.results =
                         Append(@, IF pc = "raised" THEN Raised ELSE Returned(output))]
    /\ pc' = "idle"
    /\ raised' = FALSE
    /\ UNCHANGED <<arg, segments, last, twice, params, output>>

\* post_process_asr_segments(segments, chunk_size, overlap, ...) once more
CallAgain ==
    /\ pc = "idle"
    /\ Len(input.results) < MaxCalls
    /\ segments' = input.segments
    /\ params' = input.params
    /\ pc' = "step1"
    /\ twice' = FALSE
    /\ output' = <<>>
    /\ UNCHANGED <<arg, last, input, raised>>

\* post_process_asr_segments on the same list for the other model family, with
\* another max_duration
CallWithOtherParameters ==
    /\ pc = "idle"
    /\ Len(input.results) < MaxCalls
    /\ input.others = 0
    /\ input' = [input EXCEPT !.others = 1]
    /\ segments' = input.segments
    /\ params' = [input.params EXCEPT !.is_whisper = ~@,
                                      !.max_duration = (@ + 1) % (MaxThreshold + 1)]
    /\ pc' = "step1"
    /\ twice' = TRUE
    /\ output' = <<>>
    /\ UNCHANGED <<arg, last, raised>>

\* a stage called on its own on the same list
CallStageBetween ==
    /\ pc = "idle"
    /\ Len(input.results) < MaxCalls
    /\ input.others = 0
    /\ input' = [input EXCEPT !.others = 1]
    /\ \E fn \in {"group_segments_by_gap", "split_long_segments"} :
        /\ segments' = IF fn = "group_segments_by_gap"
                       THEN group_segments_by_gap(input.segments, 0)
                       ELSE split_long_segments(input.segments, 0)
        /\ last' = fn
    /\ arg' = input.segments
    /\ UNCHANGED <<twice, pc, params, raised, output>>

RerunNext ==
    \/ Step1ResolveOverlaps
    \/ Step2GroupByGap
    \/ Step2SplitByWordGap
    \/ Step3SplitLong
    \/ Step4Convert
    \/ ReturnToCaller
    \/ CallAgain
    \/ CallWithOtherParameters
    \/ CallStageBetween

RerunSpec == RerunInit /\ [][RerunNext]_vars

(***************************************************************************)
(* The word-level merge, called on a segment of chunk 0 and an overlapping *)
(* segment of chunk 1.                                                     *)
(***************************************************************************)
\* the word lists a chunk whose window is [from, to] can yield: up to n words in
\* time order, not overlapping one another
ChunkWordLists(from, to, n) ==
    {ws \in SeqsUpTo({WordTimestamp(t, p[1], p[2]) :
                         t \in {PlainText, <<"b">>}, p \in Intervals(MaxTime, 0..MaxTime)}, n) :
        /\ ws # <<>>
        /\ \A i \in DOMAIN ws :
            /\ from <= ws[i].start
            /\ ws[i].end <= to
            /\ i < Len(ws) => ws[i].end <= ws[i + 1].start}

\* a chunk's segment: its text and bounds are those of its words
ChunkSegment(ws, chunk_start) ==
    TaggedSegment(strip(join(ws)), ws[1].start, ws[Len(ws)].end, ws, chunk_start)

\* geometries whose chunks 0 and 1 overlap and fit in the time line
ZipGeometries ==
    {g \in Geometries : g[2] > 0 /\ g[1] > g[2] /\ 2 * g[1] - g[2] <= MaxTime}

\* the segments of test_zip_words_in_overlapping_segments, in half seconds:
\* chunk_size 30 s, overlap 5 s, chunks starting at 0 s and 25 s
zip_seg1 ==
    TaggedSegment(<<"T", "h", "e", " ", "b", "i", "r", "c", "h", " ", "c", "a", "n", "o", "e", " ", "s", "l", "i", "d">>, 0, 58,
                  <<WordTimestamp(<<"T", "h", "e">>, 0, 2),
                    WordTimestamp(<<"b", "i", "r", "c", "h">>, 20, 22),
                    WordTimestamp(<<"c", "a", "n", "o", "e">>, 52, 54),
                    WordTimestamp(<<"s", "l", "i", "d">>, 56, 58)>>,
                  Some(0))

zip_seg2 ==
    TaggedSegment(<<"c", "a", "n", "o", "e", " ", "s", "l", "i", "d", " ", "o", "n">>, 51, 80,
                  <<WordTimestamp(<<"c", "a", "n", "o", "e">>, 51, 53),
                    WordTimestamp(<<"s", "l", "i", "d">>, 55, 57),
                    WordTimestamp(<<"o", "n">>, 70, 72)>>,
                  Some(50))

\* the segments of test_zip_words_in_overlapping_segments_fallback, untagged
fallback_seg1 ==
    TaggedSegment(<<"h", "e", "l", "l", "o", " ", "w", "o", "r", "l", "d">>, 0, 20,
                  <<WordTimestamp(<<"h", "e", "l", "l", "o">>, 0, 2),
                    WordTimestamp(<<"w", "o", "r", "l", "d">>, 14, 16)>>,
                  None)

fallback_seg2 ==
    TaggedSegment(<<"w", "o", "r", "l", "d", " ", "f", "o", "o">>, 12, 30,
                  <<WordTimestamp(<<"w", "o", "r", "l", "d">>, 13, 15),
                    WordTimestamp(<<"f", "o", "o">>, 24, 26)>>,
                  None)

ZipTestLists == {<<zip_seg1, zip_seg2>>, <<fallback_seg1, fallback_seg2>>}

\* chunk_size=30.0, overlap=5.0, in half seconds
ZipTestGeometry == <<60, 10>>

ZipInit ==
    /\ \/ /\ params \in {[NoParams EXCEPT !.chunk_size = g[1], !.overlap = g[2]] :
                            g \in ZipGeometries}
          /\ \E tagged \in BOOLEAN :
             \E wa \in ChunkWordLists(0, params.chunk_size, MaxWords - 1) :
             \E wb \in ChunkWordLists(params.chunk_size - params.overlap,
                                      2 * params.chunk_size - params.overlap,
                                      MaxWords - 1) :
                LET seg_a == ChunkSegment(wa, IF tagged THEN Some(0) ELSE None)
                    seg_b == ChunkSegment(wb, IF tagged
                                              THEN Some(params.chunk_size - params.overlap)
                                              ELSE None)
                IN  /\ seg_a.start <= seg_b.start
                    /\ seg_b.start < seg_a.end
                    /\ segments = <<seg_a, seg_b>>
       \/ /\ params = [NoParams EXCEPT !.chunk_size = ZipTestGeometry[1],
                                       !.overlap = ZipTestGeometry[2]]
          /\ segments \in ZipTestLists
    /\ arg = <<>>
    /\ last = "none"
    /\ twice = FALSE
    /\ raised = FALSE
    /\ pc = "idle"
    /\ input = <<>>
    /\ output = <<>>

CallZipWords ==
    /\ last = "none"
    /\ arg' = segments
    /\ segments' = <<zip_words_in_overlapping_segments(
                        segments[1], segments[2], params.chunk_size, params.overlap)>>
    /\ last' = "zip_words_in_overlapping_segments"
    /\ UNCHANGED <<twice, pc, input, params, raised, output>>

ZipNext == CallZipWords

ZipSpec == ZipInit /\ [][ZipNext]_vars

(***************************************************************************)
(* Raw ASR payloads (parsed JSON) and the adapters that read them.         *)
(* In the adapter specifications one tick is 0.01 s.                       *)
(***************************************************************************)
\* a value found under a key of a raw dict: the key is absent, or holds None, a
\* number or a str
Missing == [kind |-> "missing", num |-> 0, str |-> <<>>]

PyNone == [kind |-> "None", num |-> 0, str |-> <<>>]

Num(n) == [kind |-> "num", num |-> n, str |-> <<>>]

Str(t) == [kind |-> "str", num |-> 0, str |-> t]

\* an element of a raw list: a dict with the keys text (or word, or segment), start
\* and end, or something that is not a dict
RawItem(text, start, end) == [is_dict |-> TRUE, text |-> text, start |-> start, end |-> end]

NotADict == [is_dict |-> FALSE, text |-> Missing, start |-> Missing, end |-> Missing]

\* a list found under a key of a raw dict: absent, None, or a list of items
NoList == [kind |-> "missing", items |-> <<>>]

NoneList == [kind |-> "None", items |-> <<>>]

List(items) == [kind |-> "list", items |-> items]

\* d.get(key): None when the key is absent
get(field) == IF field.kind = "missing" THEN PyNone ELSE field

\* d.get(key, ""): the default when the key is absent
get_or_empty(field) == IF field.kind = "missing" THEN Str(<<>>) ELSE field

\* d.get(key, [])
get_or_empty_list(field) == IF field.kind = "missing" THEN List(<<>>) ELSE field

\* the tolerance of the word-to-sentence match, in ticks
Tolerance == 1

\* a tolerance is missing from the comparison
segment_contains_word_exactly(word_start, word_end, seg_start, seg_end) ==
    word_start >= seg_start /\ word_end <= seg_end

\* if word_start >= seg_start - 0.01 and word_end <= seg_end + 0.01
segment_contains_word(word_start, word_end, seg_start, seg_end) ==
    word_start >= seg_start - Tolerance /\ word_end <= seg_end + Tolerance

\* parse_whisper_raw_chunk: for word_data in word_segments
RECURSIVE whisper_raw_loop(_, _, _, _)
whisper_raw_loop(word_segments, i, result, chunk_start) ==
    IF i > Len(word_segments) THEN Returned(result)
    ELSE LET word_data == word_segments[i]
         IN  IF ~word_data.is_dict
             THEN whisper_raw_loop(word_segments, i + 1, result, chunk_start)
             ELSE IF get_or_empty(word_data.text).kind # "str"
                  THEN Raised   \* AttributeError: None has no strip
                  ELSE LET text == strip(get_or_empty(word_data.text).str)
                           start == get(word_data.start)
                           end == get(word_data.end)
                       IN  IF text # <<>> /\ start.kind # "None" /\ end.kind # "None"
                           THEN whisper_raw_loop(word_segments, i + 1,
                                    Append(result,
                                        ASRSegment(text, chunk_start + start.num,
                                                   chunk_start + end.num,
                                                   <<WordTimestamp(text,
                                                        chunk_start + start.num,
                                                        chunk_start + end.num)>>)),
                                    chunk_start)
                           ELSE whisper_raw_loop(word_segments, i + 1, result, chunk_start)

\* chunk_data is a record [is_dict, segments, words]
parse_whisper_raw_chunk(chunk_data, chunk_start) ==
    IF ~chunk_data.is_dict THEN Returned(<<>>)
    ELSE LET word_segments == get_or_empty_list(chunk_data.segments)
         IN  IF word_segments.kind # "list"
             THEN Raised   \* TypeError: None is not iterable
             ELSE whisper_raw_loop(word_segments.items, 1, <<>>, chunk_start)

\* parse_parakeet_raw_chunk: for word_data in all_words
RECURSIVE parakeet_words_loop(_, _, _, _, _, _)
parakeet_words_loop(all_words, j, segment_words, seg_start, seg_end, chunk_start) ==
    IF j > Len(all_words) THEN Returned(segment_words)
    ELSE LET word_data == all_words[j]
         IN  IF ~word_data.is_dict
             THEN parakeet_words_loop(all_words, j + 1, segment_words,
                                      seg_start, seg_end, chunk_start)
             ELSE IF get_or_empty(word_data.text).kind # "str"
                  THEN Raised   \* AttributeError: None has no strip
                  ELSE LET word_text == strip(get_or_empty(word_data.text).str)
                           word_start == get(word_data.start)
                           word_end == get(word_data.end)
                       IN  parakeet_words_loop(all_words, j + 1,
                               IF /\ word_text # <<>>
                                  /\ word_start.kind # "None"
                                  /\ word_end.kind # "None"
                                  /\ segment_contains_word(word_start.num, word_end.num,
                                                           seg_start, seg_end)
                               THEN Append(segment_words,
                                           WordTimestamp(word_text,
                                                         chunk_start + word_start.num,
                                                         chunk_start + word_end.num))
                               ELSE segment_words,
                               seg_start, seg_end, chunk_start)

\* parse_parakeet_raw_chunk: for segment_data in sentence_segments
RECURSIVE parakeet_loop(_, _, _, _, _)
parakeet_loop(sentence_segments, all_words, i, result, chunk_start) ==
    IF i > Len(sentence_segments) THEN Returned(result)
    ELSE LET segment_data == sentence_segments[i]
         IN  IF ~segment_data.is_dict
             THEN parakeet_loop(sentence_segments, all_words, i + 1, result, chunk_start)
             ELSE IF get_or_empty(segment_data.text).kind # "str"
                  THEN Raised   \* AttributeError: None has no strip
                  ELSE LET text == strip(get_or_empty(segment_data.text).str)
                           seg_start == get(segment_data.start)
                           seg_end == get(segment_data.end)
                       IN  IF text = <<>> \/ seg_start.kind = "None" \/ seg_end.kind = "None"
                           THEN parakeet_loop(sentence_segments, all_words, i + 1,
                                              result, chunk_start)
                           ELSE IF all_words.kind # "list"
                                THEN Raised   \* TypeError: None is not iterable
                                ELSE LET ws == parakeet_words_loop(all_words.items, 1, <<>>,
                                                    seg_start.num, seg_end.num, chunk_start)
                                     IN  IF ws.raised THEN Raised
                                         ELSE parakeet_loop(sentence_segments, all_words,
                                                  i + 1,
                                                  Append(result,
                                                      ASRSegment(text,
                                                          chunk_start + seg_start.num,
                                                          chunk_start + seg_end.num,
                                                          ws.value)),
                                                  chunk_start)

parse_parakeet_raw_chunk(chunk_data, chunk_start) ==
    IF ~chunk_data.is_dict THEN Returned(<<>>)
    ELSE LET sentence_segments == get_or_empty_list(chunk_data.segments)
             all_words == get_or_empty_list(chunk_data.words)
         IN  IF sentence_segments.kind # "list" \/ sentence_segments.items = <<>>
             THEN Returned(<<>>)   \* if not sentence_segments
             ELSE parakeet_loop(sentence_segments.items, all_words, 1, <<>>, chunk_start)

\* the timestamp of a Transformers chunk: absent, None, or a tuple or a list of two
\* entries, each None or a number
Timestamp(kind, start, end) == [kind |-> kind, start |-> start, end |-> end]

NoTimestamp == Timestamp("missing", PyNone, PyNone)

NoneTimestamp == Timestamp("None", PyNone, PyNone)

\* a Transformers chunk: a dict with the keys text and timestamp, or not a dict
RawChunk(text, timestamp) == [is_dict |-> TRUE, text |-> text, timestamp |-> timestamp]

NotAChunk == [is_dict |-> FALSE, text |-> Missing, timestamp |-> NoTimestamp]

\* a word whose text is None, kept apart from every str
NoneText == <<"<None>">>

\* group_whisper_words_into_segments: for chunk in chunks
RECURSIVE group_whisper_loop(_, _, _)
group_whisper_loop(chunks, i, result) ==
    IF i > Len(chunks) THEN Returned(result)
    ELSE LET chunk == chunks[i]
         IN  IF ~chunk.is_dict THEN Raised   \* AttributeError: no attribute get
             ELSE IF chunk.timestamp.kind # "tuple"
                  THEN group_whisper_loop(chunks, i + 1, result)
             ELSE IF chunk.timestamp.start.kind = "None" \/ chunk.timestamp.end.kind = "None"
                  THEN group_whisper_loop(chunks, i + 1, result)
             ELSE IF chunk.text.kind # "str"
                  THEN Raised   \* KeyError: 'text', or AttributeError: None has no strip
             ELSE LET start == chunk.timestamp.start.num
                      end == chunk.timestamp.end.num
                      word_obj == WordTimestamp(chunk.text.str, start, end)
                  IN  group_whisper_loop(chunks, i + 1,
                          Append(result,
                                 ASRSegment(strip(chunk.text.str), start, end, <<word_obj>>)))

group_whisper_words_into_segments(chunks) ==
    IF chunks = <<>> THEN Returned(<<>>)
    ELSE group_whisper_loop(chunks, 1, <<>>)

\* a time left as the chunk gave it, without the chunk's offset
unadjusted_time(t, chunk_start) == t

\* chunk_start + t if t is not None else None
adjusted_time(t, chunk_start) ==
    IF t.kind = "None" THEN PyNone ELSE Num(chunk_start + t.num)

\* parse_transformers_result_with_words: adjusted_chunks
RECURSIVE adjusted_chunks_of(_, _, _)
adjusted_chunks_of(chunks, i, chunk_start) ==
    IF i > Len(chunks) THEN Returned(<<>>)
    ELSE LET chunk == chunks[i]
             rest == adjusted_chunks_of(chunks, i + 1, chunk_start)
         IN  IF ~chunk.is_dict \/ chunk.text.kind = "missing"
             THEN Raised   \* TypeError or KeyError from chunk["text"]
             ELSE IF rest.raised THEN Raised
             ELSE Returned(
                     <<RawChunk(chunk.text,
                                IF chunk.timestamp.kind \in {"tuple", "list"}
                                THEN Timestamp("tuple",
                                         adjusted_time(chunk.timestamp.start, chunk_start),
                                         adjusted_time(chunk.timestamp.end, chunk_start))
                                ELSE NoneTimestamp)>> \o rest.value)

\* result is a record [is_dict, chunks]
parse_transformers_result_with_words(result, chunk_start) ==
    IF ~result.is_dict \/ result.chunks.kind = "missing" THEN Returned(<<>>)
    ELSE IF result.chunks.kind # "list" THEN Raised   \* TypeError: None is not iterable
    ELSE LET adjusted_chunks == adjusted_chunks_of(result.chunks.items, 1, chunk_start)
         IN  IF adjusted_chunks.raised THEN Raised
             ELSE group_whisper_words_into_segments(adjusted_chunks.value)

\* parse_nemo_result_with_words: adjusted_words
RECURSIVE adjusted_words_of(_, _, _)
adjusted_words_of(all_words, j, chunk_start) ==
    IF j > Len(all_words) THEN Returned(<<>>)
    ELSE LET w == all_words[j]
             rest == adjusted_words_of(all_words, j + 1, chunk_start)
         IN  IF \/ ~w.is_dict
                \/ w.text.kind = "missing"
                \/ w.start.kind # "num"
                \/ w.end.kind # "num"
             THEN Raised   \* TypeError or KeyError
             ELSE IF rest.raised THEN Raised
             ELSE Returned(
                     <<WordTimestamp(IF w.text.kind = "str" THEN w.text.str ELSE NoneText,
                                     chunk_start + w.start.num,
                                     chunk_start + w.end.num)>> \o rest.value)

\* [w for w in word_data if ...], kept in order
RECURSIVE nemo_segment_words(_, _, _)
nemo_segment_words(word_data, segment_start, segment_end) ==
    IF word_data = <<>> THEN <<>>
    ELSE (IF segment_contains_word_exactly(Head(word_data).start, Head(word_data).end,
                                           segment_start, segment_end)
          THEN <<Head(word_data)>> ELSE <<>>)
         \o nemo_segment_words(Tail(word_data), segment_start, segment_end)

\* segment_data and word_data are the adjusted ones: an ASRSegment without words,
\* and WordTimestamps
parse_nemo_segment(segment_data, word_data) ==
    ASRSegment(segment_data.text, segment_data.start, segment_data.end,
               nemo_segment_words(word_data, segment_data.start, segment_data.end))

\* parse_nemo_result_with_words: for segment_data in output.timestamp["segment"]
RECURSIVE nemo_loop(_, _, _, _, _)
nemo_loop(segment_list, all_words, i, result, chunk_start) ==
    IF i > Len(segment_list) THEN Returned(result)
    ELSE LET segment_data == segment_list[i]
         IN  IF ~segment_data.is_dict \/ segment_data.text.kind # "str"
             THEN Raised   \* TypeError, KeyError or AttributeError
             ELSE IF strip(segment_data.text.str) = <<>>
                  THEN nemo_loop(segment_list, all_words, i + 1, result, chunk_start)
             ELSE IF segment_data.start.kind # "num" \/ segment_data.end.kind # "num"
                  THEN Raised   \* KeyError, or TypeError: float + None
             ELSE IF all_words.kind # "list"
                  THEN Raised   \* TypeError: None is not iterable
             ELSE LET adjusted_segment ==
                          ASRSegment(segment_data.text.str,
                                     chunk_start + segment_data.start.num,
                                     chunk_start + segment_data.end.num, <<>>)
                      adjusted_words == adjusted_words_of(all_words.items, 1, chunk_start)
                  IN  IF adjusted_words.raised THEN Raised
                      ELSE nemo_loop(segment_list, all_words, i + 1,
                                     Append(result,
                                            parse_nemo_segment(adjusted_segment,
                                                               adjusted_words.value)),
                                     chunk_start)

\* result is a record [empty, has_timestamp, segment, word]: result[0].timestamp holds
\* the lists segment and word
parse_nemo_result_with_words(result, chunk_start) ==
    IF result.empty THEN Returned(<<>>)
    ELSE IF ~result.has_timestamp THEN Returned(<<>>)
    ELSE IF result.segment.kind = "missing" \/ result.word.kind = "missing"
         THEN Returned(<<>>)
    ELSE IF result.segment.kind # "list" THEN Raised   \* TypeError: None is not iterable
    ELSE nemo_loop(result.segment.items, result.word, 1, <<>>, chunk_start)

(***************************************************************************)
(* The adapters, called on raw payloads with well-formed and malformed     *)
(* records.                                                                *)
(***************************************************************************)
\* the raw times of the payloads, in ticks
RawTimes == 0..(MaxTime - 1)

ChunkStarts == {0, 1}

\* the times a well-formed record carries
RawIntervals == {p \in RawTimes \X RawTimes : p[1] <= p[2]}

\* a well-formed record, and records with one defect: not a dict, the text absent,
\* None or blank, a time absent or None
RawItems(texts) ==
    {RawItem(Str(t), Num(p[1]), Num(p[2])) : t \in texts, p \in RawIntervals}
    \cup {NotADict}
    \cup {RawItem(t, Num(0), Num(1)) : t \in {Missing, PyNone, Str(<<" ">>)}}
    \cup {RawItem(Str(PlainText), x, Num(1)) : x \in {Missing, PyNone}}
    \cup {RawItem(Str(PlainText), Num(0), x) : x \in {Missing, PyNone}}

\* a list under a key: absent, None, or up to n items
RawLists(items, n) == {NoList, NoneList} \cup {List(l) : l \in SeqsUpTo(items, n)}

\* the raw chunk parse_whisper_raw_chunk and parse_parakeet_raw_chunk read
RawChunkData(is_dict, segs, words) ==
    [is_dict |-> is_dict, segments |-> segs, words |-> words]

WhisperPayloads ==
    {RawChunkData(FALSE, NoList, NoList)}
    \cup {RawChunkData(TRUE, l, NoList) :
            l \in RawLists(RawItems({PlainText, <<" ", "b">>}), MaxItems)}

\* Transformers chunks: well-formed, and with one defect
RawChunks ==
    {RawChunk(Str(t), Timestamp("tuple", Num(p[1]), Num(p[2]))) :
        t \in {PlainText, <<" ", "b">>}, p \in RawIntervals}
    \cup {NotAChunk}
    \cup {RawChunk(t, Timestamp("tuple", Num(0), Num(1))) : t \in {Missing, PyNone}}
    \cup {RawChunk(Str(PlainText), ts) :
            ts \in {NoTimestamp, NoneTimestamp, Timestamp("list", Num(0), Num(1)),
                    Timestamp("tuple", PyNone, Num(1)), Timestamp("tuple", Num(0), PyNone)}}

\* the result parse_transformers_result_with_words reads
TransformersResult(is_dict, chunks) == [is_dict |-> is_dict, chunks |-> chunks]

TransformersPayloads ==
    {TransformersResult(FALSE, NoList)}
    \cup {TransformersResult(TRUE, l) : l \in RawLists(RawChunks, MaxItems)}

WordAdapterInit ==
    /\ input \in {[shape |-> "whisper", data |-> d, chunk_start |-> c] :
                     d \in WhisperPayloads, c \in ChunkStarts}
               \cup {[shape |-> "transformers", data |-> d, chunk_start |-> c] :
                     d \in TransformersPayloads, c \in ChunkStarts}
    /\ segments = <<>>
    /\ arg = <<>>
    /\ last = "none"
    /\ twice = FALSE
    /\ params = NoParams
    /\ raised = FALSE
    /\ pc = "idle"
    /\ output = <<>>

\* an adapter returns a list, or raises
AdapterReturns(fn, r) ==
    /\ last = "none"
    /\ segments' = r.value
    /\ raised' = r.raised
    /\ last' = fn
    /\ UNCHANGED <<arg, twice, pc, input, params, output>>

CallParseWhisperRawChunk ==
    /\ input.shape = "whisper"
    /\ AdapterReturns("parse_whisper_raw_chunk",
                      parse_whisper_raw_chunk(input.data, input.chunk_start))

CallParseTransformersResult ==
    /\ input.shape = "transformers"
    /\ AdapterReturns("parse_transformers_result_with_words",
                      parse_transformers_result_with_words(input.data, input.chunk_start))

\* group_whisper_words_into_segments called on the chunks of a pipeline result
CallGroupWhisperWords ==
    /\ input.shape = "transformers"
    /\ input.data.chunks.kind = "list"
    /\ input.chunk_start = 0
    /\ AdapterReturns("group_whisper_words_into_segments",
                      group_whisper_words_into_segments(input.data.chunks.items))

WordAdapterNext ==
    \/ CallParseWhisperRawChunk
    \/ CallParseTransformersResult
    \/ CallGroupWhisperWords

WordAdapterSpec == WordAdapterInit /\ [][WordAdapterNext]_vars

\* the result parse_nemo_result_with_words reads: an empty list, or a list whose
\* first element may have a timestamp attribute holding the lists segment and word
NemoResult(empty, has_timestamp, segment, word) ==
    [empty |-> empty, has_timestamp |-> has_timestamp, segment |-> segment, word |-> word]

\* sentence records and word records of one chunk
SentenceLists == RawLists(RawItems({<<"s">>}), MaxItems - 1)

WordLists == RawLists(RawItems({PlainText}), MaxItems)

ParakeetPayloads ==
    {RawChunkData(FALSE, NoList, NoList)}
    \cup {RawChunkData(TRUE, l, w) : l \in SentenceLists, w \in WordLists}

NemoPayloads ==
    {NemoResult(TRUE, FALSE, NoList, NoList), NemoResult(FALSE, FALSE, NoList, NoList)}
    \cup {NemoResult(FALSE, TRUE, l, w) : l \in SentenceLists, w \in WordLists}

SentenceAdapterInit ==
    /\ input \in {[shape |-> "parakeet", data |-> d, chunk_start |-> c] :
                     d \in ParakeetPayloads, c \in ChunkStarts}
               \cup {[shape |-> "nemo", data |-> d, chunk_start |-> c] :
                     d \in NemoPayloads, c \in ChunkStarts}
    /\ segments = <<>>
    /\ arg = <<>>
    /\ last = "none"
    /\ twice = FALSE
    /\ params = NoParams
    /\ raised = FALSE
    /\ pc = "idle"
    /\ output = <<>>

CallParseParakeetRawChunk ==
    /\ input.shape = "parakeet"
    /\ AdapterReturns("parse_parakeet_raw_chunk",
                      parse_parakeet_raw_chunk(input.data, input.chunk_start))

CallParseNemoResult ==
    /\ input.shape = "nemo"
    /\ AdapterReturns("parse_nemo_result_with_words",
                      parse_nemo_result_with_words(input.data, input.chunk_start))

SentenceAdapterNext ==
    \/ CallParseParakeetRawChunk
    \/ CallParseNemoResult

SentenceAdapterSpec == SentenceAdapterInit /\ [][SentenceAdapterNext]_vars

(***************************************************************************)
(* The two projections, each called once on a list of segments.            *)
(***************************************************************************)
\* segment texts a projection meets: empty, blank, padded on either side, plain
ProjectedTexts == {<<>>, <<" ">>, <<" ", "a">>, <<"b", " ">>}

\* segments of one tick, with no word or one word
ProjectedSegments ==
    {ASRSegment(t, p[1], p[2], ws) :
        t \in ProjectedTexts,
        p \in Intervals(MaxTime, {1}),
        ws \in {<<>>, <<WordTimestamp(PlainText, 0, 1)>>}}

ProjectionInit ==
    /\ input \in SeqsUpTo(ProjectedSegments, MaxSegs - 1)
    /\ segments = input
    /\ arg = <<>>
    /\ last = "none"
    /\ twice = FALSE
    /\ params = NoParams
    /\ raised = FALSE
    /\ pc = "idle"
    /\ output = <<>>

ProjectionReturns(fn, value) ==
    /\ output' = value
    /\ last' = fn
    /\ UNCHANGED <<arg, segments, twice, pc, input, params, raised>>

CallAsrSegmentsToTranscriptSegments ==
    /\ last = "none"
    /\ ProjectionReturns("asr_segments_to_transcript_segments",
                         asr_segments_to_transcript_segments(segments))

CallAsrSegmentsToVttCues ==
    /\ last = "none"
    /\ ProjectionReturns("asr_segments_to_vtt_cues", asr_segments_to_vtt_cues(segments))

ProjectionNext ==
    \/ CallAsrSegmentsToTranscriptSegments
    \/ CallAsrSegmentsToVttCues

ProjectionSpec == ProjectionInit /\ [][ProjectionNext]_vars

(***************************************************************************)
(* The stages once more, on Python's objects.  A heap is the sequence of   *)
(* the list objects allocated so far, a list's id its index in it.  A      *)
(* segment object is a record whose words field is the id of its words     *)
(* list and whose oid tells the caller's objects (1, 2, ...) from the      *)
(* objects a stage creates (0); no statement of the stages assigns to a    *)
(* field of a segment, so segment objects are kept by value in the lists   *)
(* that hold them.                                                         *)
(***************************************************************************)
SegmentObject(oid, text, start, end, words_id) ==
    [oid |-> oid, text |-> text, start |-> start, end |-> end, words |-> words_id]

\* one more list object: x = [...]
alloc(heap, content) == Append(heap, content)

\* x.append(item)
append(heap, id, item) == [heap EXCEPT ![id] = Append(@, item)]

\* x.extend(items)
extend(heap, id, items) == [heap EXCEPT ![id] = @ \o items]

\* x[-1] = item
set_last(heap, id, item) == [heap EXCEPT ![id] = [@ EXCEPT ![Len(@)] = item]]

\* a binding that takes the words list of the group's first segment for all_words
words_of_first(heap, current_group_segs) ==
    [heap |-> heap, id |-> current_group_segs[1].words]

\* all_words = []
new_all_words(heap, current_group_segs) ==
    [heap |-> alloc(heap, <<>>), id |-> Len(heap) + 1]

\* for seg in current_group_segs: all_words.extend(seg.words)
RECURSIVE extend_all(_, _, _, _)
extend_all(heap, all_words, current_group_segs, i) ==
    IF i > Len(current_group_segs) THEN heap
    ELSE extend_all(extend(heap, all_words, heap[current_group_segs[i].words]),
                    all_words, current_group_segs, i + 1)

\* result.append(ASRSegment(text, start, end, words=all_words)) for the group
append_group(heap, result, current_group) ==
    LET current_group_segs == heap[current_group]
        bound == new_all_words(heap, current_group_segs)
        filled == extend_all(bound.heap, bound.id, current_group_segs, 1)
    IN  append(filled, result,
               SegmentObject(0, strip(join(filled[bound.id])),
                             current_group_segs[1].start,
                             current_group_segs[Len(current_group_segs)].end,
                             bound.id))

\* the loop of group_segments_by_gap; returns the heap
RECURSIVE group_loop_on(_, _, _, _, _, _)
group_loop_on(heap, sorted_segs, i, result, current_group, max_gap_seconds) ==
    IF i > Len(heap[sorted_segs])
    THEN IF heap[current_group] # <<>> THEN append_group(heap, result, current_group)
         ELSE heap
    ELSE LET prev_seg == heap[sorted_segs][i - 1]
             curr_seg == heap[sorted_segs][i]
             gap == curr_seg.start - prev_seg.end
         IN  IF within_gap(gap, max_gap_seconds)
             THEN group_loop_on(append(heap, current_group, curr_seg), sorted_segs, i + 1,
                                result, current_group, max_gap_seconds)
             ELSE LET closed == IF heap[current_group] # <<>>
                                THEN append_group(heap, result, current_group)
                                ELSE heap
                  IN  group_loop_on(alloc(closed, <<curr_seg>>), sorted_segs, i + 1,
                                    result, Len(closed) + 1, max_gap_seconds)

\* a call's outcome: the heap after it and the id of the list it returns
Outcome(heap, id) == [heap |-> heap, id |-> id]

\* group_segments_by_gap(segments, max_gap_seconds), segments being a list's id
group_segments_by_gap_on(heap, segs, max_gap_seconds) ==
    IF heap[segs] = <<>> THEN Outcome(alloc(heap, <<>>), Len(heap) + 1)
    ELSE LET sorted_segs == Len(heap) + 1
             result == Len(heap) + 2
             current_group == Len(heap) + 3
             h1 == alloc(heap, sorted_by_start(heap[segs]))
             h2 == alloc(h1, <<>>)
             h3 == alloc(h2, <<h1[sorted_segs][1]>>)
         IN  Outcome(group_loop_on(h3, sorted_segs, 2, result, current_group,
                                   max_gap_seconds),
                     result)

\* the sub-segments of one segment: for i in range(len(split_indices) - 1), each
\* slice bound to a new list sub_words and appended to result as a new segment
RECURSIVE split_at_on(_, _, _, _, _)
split_at_on(heap, result, words, split_indices, i) ==
    IF i >= Len(split_indices) THEN heap
    ELSE LET start_idx == split_indices[i]
             end_idx == split_indices[i + 1]
             sub_words == Len(heap) + 1
             h1 == alloc(heap, slice(heap[words], start_idx, end_idx))
         IN  IF h1[sub_words] = <<>>
             THEN split_at_on(h1, result, words, split_indices, i + 1)
             ELSE split_at_on(
                      append(h1, result,
                             SegmentObject(0, strip(join(h1[sub_words])),
                                           h1[sub_words][1].start,
                                           h1[sub_words][Len(h1[sub_words])].end,
                                           sub_words)),
                      result, words, split_indices, i + 1)

\* for segment in segments, in split_segments_by_word_gap
RECURSIVE split_gap_loop_on(_, _, _, _, _)
split_gap_loop_on(heap, segs, k, result, max_gap_seconds) ==
    IF k > Len(heap[segs]) THEN heap
    ELSE LET segment == heap[segs][k]
             split_indices == split_indices_from(heap[segment.words], 1, max_gap_seconds)
         IN  IF Len(heap[segment.words]) <= 1 \/ split_indices = <<>>
             THEN split_gap_loop_on(append(heap, result, segment), segs, k + 1, result,
                                    max_gap_seconds)
             ELSE split_gap_loop_on(
                      split_at_on(heap, result, segment.words,
                                  <<0>> \o split_indices \o <<Len(heap[segment.words])>>, 1),
                      segs, k + 1, result, max_gap_seconds)

split_segments_by_word_gap_on(heap, segs, max_gap_seconds) ==
    Outcome(split_gap_loop_on(alloc(heap, <<>>), segs, 1, Len(heap) + 1, max_gap_seconds),
            Len(heap) + 1)

\* result.append(ASRSegment(sub_text, sub_start, sub_end, words=current_words))
append_sub_segment(heap, result, current_words) ==
    append(heap, result,
           SegmentObject(0, strip(join(heap[current_words])),
                         heap[current_words][1].start,
                         heap[current_words][Len(heap[current_words])].end,
                         current_words))

\* current_words = [word]
restart_current_words(heap, word) ==
    [heap |-> alloc(heap, <<word>>), id |-> Len(heap) + 1]

\* for word in segment.words, then the remaining words, in split_long_segments
RECURSIVE long_loop_on(_, _, _, _, _, _)
long_loop_on(heap, result, words, i, current_words, max_duration_seconds) ==
    IF i > Len(heap[words])
    THEN IF heap[current_words] # <<>>
         THEN append_sub_segment(heap, result, current_words)
         ELSE heap
    ELSE LET word == heap[words][i]
         IN  IF heap[current_words] # <<>>
                 /\ potential_duration_of(word, heap[current_words]) > max_duration_seconds
             THEN LET emitted == append_sub_segment(heap, result, current_words)
                      rebound == restart_current_words(emitted, word)
                  IN  long_loop_on(rebound.heap, result, words, i + 1, rebound.id,
                                   max_duration_seconds)
             ELSE long_loop_on(append(heap, current_words, word), result, words, i + 1,
                               current_words, max_duration_seconds)

\* for segment in segments, in split_long_segments
RECURSIVE split_long_loop_on(_, _, _, _, _)
split_long_loop_on(heap, segs, k, result, max_duration_seconds) ==
    IF k > Len(heap[segs]) THEN heap
    ELSE LET segment == heap[segs][k]
             duration == segment.end - segment.start
         IN  IF duration <= max_duration_seconds \/ Len(heap[segment.words]) <= 1
             THEN split_long_loop_on(append(heap, result, segment), segs, k + 1, result,
                                     max_duration_seconds)
             ELSE split_long_loop_on(
                      long_loop_on(alloc(heap, <<>>), result, segment.words, 1,
                                   Len(heap) + 1, max_duration_seconds),
                      segs, k + 1, result, max_duration_seconds)

split_long_segments_on(heap, segs, max_duration_seconds) ==
    Outcome(split_long_loop_on(alloc(heap, <<>>), segs, 1, Len(heap) + 1,
                               max_duration_seconds),
            Len(heap) + 1)

\* for segment in sorted_segments, in resolve_overlap_conflicts; chunk_size > overlap
RECURSIVE resolve_loop_on(_, _, _, _, _, _)
resolve_loop_on(heap, sorted_segments, i, result, chunk_size, overlap) ==
    IF i > Len(heap[sorted_segments]) THEN heap
    ELSE LET segment == heap[sorted_segments][i]
         IN  IF heap[result] = <<>>
             THEN resolve_loop_on(append(heap, result, segment), sorted_segments, i + 1,
                                  result, chunk_size, overlap)
             ELSE LET prev_segment == heap[result][Len(heap[result])]
                  IN  IF overlaps_previous(segment, prev_segment)
                      THEN LET prev_dist == dist_to_edge(prev_segment, chunk_size, overlap)
                               curr_dist == dist_to_edge(segment, chunk_size, overlap)
                           IN  resolve_loop_on(
                                   IF candidate_wins(curr_dist, prev_dist)
                                   THEN set_last(heap, result, segment)
                                   ELSE heap,
                                   sorted_segments, i + 1, result, chunk_size, overlap)
                      ELSE resolve_loop_on(append(heap, result, segment), sorted_segments,
                                           i + 1, result, chunk_size, overlap)

resolve_overlap_conflicts_on(heap, segs, chunk_size, overlap) ==
    IF heap[segs] = <<>> THEN Outcome(alloc(heap, <<>>), Len(heap) + 1)
    ELSE LET sorted_segments == Len(heap) + 1
             result == Len(heap) + 2
             h1 == alloc(heap, sorted_by_start(heap[segs]))
             h2 == alloc(h1, <<>>)
         IN  Outcome(resolve_loop_on(h2, sorted_segments, 1, result, chunk_size, overlap),
                     result)

(***************************************************************************)
(* A caller that holds a list of segments and calls one stage on it.       *)
(* input is the caller's heap before the call: list 1 holds its segment    *)
(* objects, list k + 1 the words of segment k.  segments is the call's     *)
(* outcome: the heap after it and the id of the returned list.             *)
(***************************************************************************)
heap_of(segs) ==
    <<[k \in 1..Len(segs) |->
          SegmentObject(k, segs[k].text, segs[k].start, segs[k].end, k + 1)]>>
        \o [k \in 1..Len(segs) |-> segs[k].words]

ObjectInit ==
    /\ \E segs \in InputLists : input = [heap |-> heap_of(segs), id |-> 1, of |-> segs]
    /\ segments = <<>>
    /\ arg = <<>>
    /\ last = "none"
    /\ twice = FALSE
    /\ params = NoParams
    /\ raised = FALSE
    /\ pc = "idle"
    /\ output = <<>>

StageReturns(fn, outcome) ==
    /\ segments' = outcome
    /\ last' = fn
    /\ UNCHANGED <<arg, twice, pc, input, raised, output>>

CallGroupSegmentsByGapOn ==
    /\ last = "none"
    /\ \E max_gap_seconds \in Thresholds :
        /\ params' = [params EXCEPT !.gap_threshold = max_gap_seconds]
        /\ StageReturns("group_segments_by_gap",
                        group_segments_by_gap_on(input.heap, input.id, max_gap_seconds))

CallSplitSegmentsByWordGapOn ==
    /\ last = "none"
    /\ \E max_gap_seconds \in Thresholds :
        /\ params' = [params EXCEPT !.gap_threshold = max_gap_seconds]
        /\ StageReturns("split_segments_by_word_gap",
                        split_segments_by_word_gap_on(input.heap, input.id,
                                                      max_gap_seconds))

CallSplitLongSegmentsOn ==
    /\ last = "none"
    /\ \E max_duration_seconds \in Thresholds :
        /\ params' = [params EXCEPT !.max_duration = max_duration_seconds]
        /\ StageReturns("split_long_segments",
                        split_long_segments_on(input.heap, input.id,
                                               max_duration_seconds))

\* under a geometry with chunk_size > overlap, so that the call returns
CallResolveOverlapConflictsOn ==
    /\ last = "none"
    /\ \E g \in {x \in GeometriesFor(input.of) : x[1] > x[2]} :
        /\ params' = [params EXCEPT !.chunk_size = g[1], !.overlap = g[2]]
        /\ StageReturns("resolve_overlap_conflicts",
                        resolve_overlap_conflicts_on(input.heap, input.id, g[1], g[2]))

ObjectNext ==
    \/ CallGroupSegmentsByGapOn
    \/ CallSplitSegmentsByWordGapOn
    \/ CallSplitLongSegmentsOn
    \/ CallResolveOverlapConflictsOn

ObjectSpec == ObjectInit /\ [][ObjectNext]_vars

(***************************************************************************)
(* Vocabulary of the properties.                                           *)
(***************************************************************************)
Range(f) == {f[i] : i \in DOMAIN f}

\* the multiset of the words of a list of segments
WordBag(segs) ==
    LET ws == all_words_of(segs)
    IN  [w \in Range(ws) |-> Cardinality({i \in DOMAIN ws : ws[i] = w})]

SplitOrMerge == {"group_segments_by_gap", "split_segments_by_word_gap",
                 "split_long_segments"}

\* sub occurs in text
Contains(text, sub) ==
    \E i \in 0..(Len(text) - Len(sub)) : SubSeq(text, i + 1, i + Len(sub)) = sub

\* the indices i at which the gap from word i to word i + 1 is over the threshold
Cuts(words, max_gap_seconds) ==
    {i \in 1..(Len(words) - 1) : words[i + 1].start - words[i].end > max_gap_seconds}

\* the index of the first word of piece k, the pieces taken in order
FirstWordOf(pieces, k) == Len(all_words_of(SubSeq(pieces, 1, k - 1))) + 1

\* the number of cuts in the segments before segment k
RECURSIVE CutsBefore(_, _, _)
CutsBefore(segs, k, max_gap_seconds) ==
    IF k <= 1 THEN 0
    ELSE Cardinality(Cuts(segs[k - 1].words, max_gap_seconds))
         + CutsBefore(segs, k - 1, max_gap_seconds)

\* l without its element i
Without(l, i) == SubSeq(l, 1, i - 1) \o SubSeq(l, i + 1, Len(l))

\* the pairs i < j of a list sorted by start whose later segment starts before the
\* earlier one ends
OverlappingPairs(S) ==
    {p \in (1..Len(S)) \X (1..Len(S)) : p[1] < p[2] /\ S[p[2]].start < S[p[1]].end}

\* a segment's distance to the nearer edge of the chunk window its start falls in
EdgeDistance(seg, chunk_size, overlap) ==
    LET stride == chunk_size - overlap
        window_start == (seg.start \div stride) * stride
    IN  min(seg.start - window_start, window_start + chunk_size - seg.end)

ReturnedFrom(fn) == last = fn /\ ~raised

\* consecutive records do not overlap: each starts at or after the end of the one before
NonOverlapping(records) ==
    \A k \in 1..(Len(records) - 1) : records[k + 1].startTime >= records[k].endTime

\* a segment as a recognizer emits it: start <= end for it and its words, the words in
\* time order, not overlapping one another, within the segment's bounds
WellFormedSegment(seg) ==
    /\ seg.start <= seg.end
    /\ \A i \in DOMAIN seg.words :
        /\ seg.words[i].start <= seg.words[i].end
        /\ seg.start <= seg.words[i].start
        /\ seg.words[i].end <= seg.end
        /\ i < Len(seg.words) => seg.words[i].end <= seg.words[i + 1].start

WellFormed(segs) == \A k \in DOMAIN segs : WellFormedSegment(segs[k])

\* the gap stage the model family selects
GapStage(segs) ==
    IF params.is_whisper
    THEN group_segments_by_gap(segs, params.gap_threshold)
    ELSE split_segments_by_word_gap(segs, params.gap_threshold)

\* the four stages composed in the stated order, applied to the input
Composition ==
    asr_segments_to_transcript_segments(
        split_long_segments(
            GapStage(
                resolve_overlap_conflicts(input, params.chunk_size, params.overlap).value),
            params.max_duration))

\* the stage that has just returned when control is at a given statement
StageBefore(position) ==
    CASE position = "step2" -> "resolve_overlap_conflicts"
      [] position = "step3" -> IF params.is_whisper THEN "group_segments_by_gap"
                               ELSE "split_segments_by_word_gap"
      [] position \in {"step4", "done"} -> "split_long_segments"
      [] OTHER -> "none"

\* two words share a stretch of time, or start together
OverlapInTime(w, v) == (w.start < v.end /\ v.start < w.end) \/ w.start = v.start

HasCounterpart(w, seg) == \E i \in DOMAIN seg.words : OverlapInTime(w, seg.words[i])

Retained(w, merged) ==
    /\ \E i \in DOMAIN merged.words : merged.words[i] = w
    /\ Contains(merged.text, strip(w.word))

\* the pieces partition the words in order, one piece per gap plus one, none empty,
\* and a new piece begins exactly after each word followed by a gap
CutsExactlyAtGaps(pieces, words, max_gap_seconds) ==
    /\ Len(pieces) = Cardinality(Cuts(words, max_gap_seconds)) + 1
    /\ all_words_of(pieces) = words
    /\ \A k \in DOMAIN pieces : pieces[k].words # <<>>
    /\ {FirstWordOf(pieces, k) - 1 : k \in 2..Len(pieces)} = Cuts(words, max_gap_seconds)

(***************************************************************************)
(* C1: for every input segment list and every chunk geometry, with         *)
(* is_whisper true and with is_whisper false, the segments                 *)
(* post_process_asr_segments returns are pairwise non-overlapping in time: *)
(* taken in output order, each segment's start is >= the end of the        *)
(* segment before it.                                                      *)
(***************************************************************************)
C1_NonOverlappingOutput == pc = "done" => NonOverlapping(output)

\* what does hold: the output does not overlap when every input segment is well-formed
NonOverlappingOnWellFormedInput ==
    (pc = "done" /\ WellFormed(input)) => NonOverlapping(output)

(***************************************************************************)
(* C2: Word conservation.  After group_segments_by_gap,                    *)
(* split_segments_by_word_gap or split_long_segments returns, the multiset *)
(* of words (text, start, end) over the returned segments equals the       *)
(* multiset over the segments it was given.                                *)
(***************************************************************************)
C2_WordConservation ==
    last \in SplitOrMerge => WordBag(segments) = WordBag(arg)

\* three one-word segments were merged into one group
C2_Witness ==
    /\ last = "group_segments_by_gap"
    /\ Len(arg) = 3
    /\ Len(segments) = 1
    /\ Len(segments[1].words) = 3

(***************************************************************************)
(* C3: Idempotence.  A stage called again on its own result, with the same *)
(* threshold, returns that result: same segments, same text, start, end    *)
(* and words, in the same order.                                           *)
(***************************************************************************)
C3_Idempotent ==
    (last \in SplitOrMerge /\ twice) => segments = arg

\* split_long_segments cut a segment in three, and was called again on the pieces
C3_Witness ==
    /\ last = "split_long_segments"
    /\ twice
    /\ Len(segments) = 3
    /\ \A k \in 1..3 : segments[k].words # <<>>

C5_KeepsWordsOnlyInSecondChunk ==
    (ReturnedFrom("resolve_overlap_conflicts") /\ ~twice /\ Len(arg) = 2) =>
        \A a, b \in 1..2 :
            (/\ a # b
             /\ arg[a].start < arg[b].end
             /\ arg[b].start < arg[a].end
             /\ arg[a].words # <<>>) =>
                \A j \in DOMAIN arg[b].words :
                    (\A i \in DOMAIN arg[a].words :
                        arg[b].words[j].start >= arg[a].words[i].end) =>
                            \E k \in DOMAIN segments :
                                Contains(segments[k].text, strip(arg[b].words[j].word))

(***************************************************************************)
(* C6: the word-level zip merge of two temporally overlapping segments A   *)
(* and B never drops a word that has no temporal counterpart in the other  *)
(* segment: every word of A or of B that no word of the other segment      *)
(* overlaps in time is in the merged segment's word list and text.         *)
(***************************************************************************)
C6_ZipKeepsWordsWithoutCounterpart ==
    last = "zip_words_in_overlapping_segments" =>
        /\ \A i \in DOMAIN arg[1].words :
              ~HasCounterpart(arg[1].words[i], arg[2]) =>
                  Retained(arg[1].words[i], segments[1])
        /\ \A j \in DOMAIN arg[2].words :
              ~HasCounterpart(arg[2].words[j], arg[1]) =>
                  Retained(arg[2].words[j], segments[1])

C8_TieKeepsPrevious ==
    ReturnedFrom("resolve_overlap_conflicts") =>
        LET S == sorted_by_start(arg)
        IN  \A p \in OverlappingPairs(S) :
                (/\ OverlappingPairs(S) = {p}
                 /\ EdgeDistance(S[p[1]], params.chunk_size, params.overlap)
                      = EdgeDistance(S[p[2]], params.chunk_size, params.overlap)) =>
                    segments = Without(S, p[2])

\* two different segments at the same distance: the earlier-sorted one came back
C8_Witness ==
    /\ ReturnedFrom("resolve_overlap_conflicts")
    /\ LET S == sorted_by_start(arg)
       IN  /\ Len(S) = 2
           /\ OverlappingPairs(S) = {<<1, 2>>}
           /\ S[1] # S[2]
           /\ EdgeDistance(S[1], params.chunk_size, params.overlap)
                = EdgeDistance(S[2], params.chunk_size, params.overlap)
           /\ segments = <<S[1]>>

(***************************************************************************)
(* C9 (as stated): for a segment with at least 2 words,                    *)
(* split_segments_by_word_gap cuts after word i exactly where              *)
(* words[i+1].start - words[i].end > max_gap_seconds: it emits (number of  *)
(* such gaps + 1) segments that partition the word list in order with no   *)
(* empty piece, each with start = its first word's start, end = its last   *)
(* word's end and text = its words joined by single spaces.                *)
(***************************************************************************)
C9_AsStated ==
    (last = "split_segments_by_word_gap" /\ Len(arg) = 1 /\ Len(arg[1].words) >= 2) =>
        /\ CutsExactlyAtGaps(segments, arg[1].words, params.gap_threshold)
        /\ \A k \in DOMAIN segments :
            /\ segments[k].start = segments[k].words[1].start
            /\ segments[k].end = segments[k].words[Len(segments[k].words)].end
            /\ segments[k].text = join(segments[k].words)

(***************************************************************************)
(* C9 (amended): the cuts are as stated; when there is at least one such   *)
(* gap every piece is a new segment with start = its first word's start,   *)
(* end = its last word's end and text = its words joined by single spaces  *)
(* and then stripped of leading and trailing whitespace; when there is     *)
(* none the one segment emitted is the input segment itself, whose text    *)
(* and bounds are left as they were.                                       *)
(***************************************************************************)
C9_SplitsAtGaps ==
    (last = "split_segments_by_word_gap" /\ Len(arg) = 1 /\ Len(arg[1].words) >= 2) =>
        /\ CutsExactlyAtGaps(segments, arg[1].words, params.gap_threshold)
        /\ IF Cuts(arg[1].words, params.gap_threshold) = {}
           THEN segments = arg
           ELSE \A k \in DOMAIN segments :
                   /\ segments[k].start = segments[k].words[1].start
                   /\ segments[k].end = segments[k].words[Len(segments[k].words)].end
                   /\ segments[k].text = strip(join(segments[k].words))

\* three words with two gaps over the threshold came back as three pieces
C9_Witness ==
    /\ last = "split_segments_by_word_gap"
    /\ Len(arg) = 1
    /\ Len(arg[1].words) = 3
    /\ Cardinality(Cuts(arg[1].words, params.gap_threshold)) = 2
    /\ Len(segments) = 3

(***************************************************************************)
(* C10: split_segments_by_word_gap returns a segment unchanged (same text, *)
(* start, end and words, as exactly one output segment, at its place among *)
(* the pieces of the segments around it) whenever the segment has 0 or 1   *)
(* words or no gap between consecutive words over max_gap_seconds; a gap   *)
(* equal to the threshold does not split.                                  *)
(***************************************************************************)
C10_NoSplitUnchanged ==
    last = "split_segments_by_word_gap" =>
        /\ Len(segments) = Len(arg) + CutsBefore(arg, Len(arg) + 1, params.gap_threshold)
        /\ \A k \in DOMAIN arg :
              Cuts(arg[k].words, params.gap_threshold) = {} =>
                  segments[k + CutsBefore(arg, k, params.gap_threshold)] = arg[k]

\* of two sentences the first was cut in two and the second, whose words are exactly
\* max_gap_seconds > 0 apart, came back as it was, as the third segment
C10_Witness ==
    /\ last = "split_segments_by_word_gap"
    /\ params.gap_threshold > 0
    /\ Len(arg) = 2
    /\ Cuts(arg[1].words, params.gap_threshold) # {}
    /\ Len(arg[2].words) = 2
    /\ arg[2].words[2].start - arg[2].words[1].end = params.gap_threshold
    /\ Len(segments) = 3
    /\ segments[3] = arg[2]

\* the pieces follow the running-window rule: within a piece every word after the first
\* ends within the ceiling of the piece's first word's start, and the first word of
\* every later piece ends over the ceiling of the start of the piece before it
WindowRule(pieces, max_duration_seconds) ==
    \A k \in DOMAIN pieces :
        LET pw == pieces[k].words
        IN  /\ pw # <<>>
            /\ \A i \in 2..Len(pw) : pw[i].end - pw[1].start <= max_duration_seconds
            /\ k > 1 => pw[1].end - pieces[k - 1].words[1].start > max_duration_seconds

(***************************************************************************)
(* C11: while split_long_segments splits a segment that is over budget, a  *)
(* word is appended to the running sub-segment when word.end minus the     *)
(* running sub-segment's first word's start is <= max_duration_seconds (a  *)
(* word ending exactly at the ceiling is kept) and starts a new            *)
(* sub-segment only when it is strictly greater; the last running          *)
(* sub-segment is always emitted, so the pieces cover the words in order.  *)
(***************************************************************************)
C11_RunningWindow ==
    (/\ last = "split_long_segments"
     /\ Len(arg) = 1
     /\ arg[1].end - arg[1].start > params.max_duration
     /\ Len(arg[1].words) >= 2) =>
        /\ all_words_of(segments) = arg[1].words
        /\ WindowRule(segments, params.max_duration)

\* of three words the second ends exactly at the ceiling and stays with the first, the
\* third goes over it and starts the second piece, which is emitted
C11_Witness ==
    /\ last = "split_long_segments"
    /\ params.max_duration > 0
    /\ Len(arg) = 1
    /\ Len(arg[1].words) = 3
    /\ arg[1].words[2].end - arg[1].words[1].start = params.max_duration
    /\ arg[1].words[3].end - arg[1].words[1].start > params.max_duration
    /\ Len(segments) = 2
    /\ Len(segments[1].words) = 2
    /\ Len(segments[2].words) = 1

\* a segment split_long_segments must leave alone
WithinBudgetOrShort(seg, max_duration_seconds) ==
    seg.end - seg.start <= max_duration_seconds \/ Len(seg.words) <= 1

\* out is segs with every segment that must be left alone in its place, unchanged and
\* once, and every other segment replaced by pieces that hold its words
RECURSIVE LeftAlone(_, _, _)
LeftAlone(segs, out, max_duration_seconds) ==
    IF segs = <<>> THEN out = <<>>
    ELSE IF WithinBudgetOrShort(Head(segs), max_duration_seconds)
         THEN /\ out # <<>>
              /\ Head(out) = Head(segs)
              /\ LeftAlone(Tail(segs), Tail(out), max_duration_seconds)
         ELSE \E n \in 1..Len(out) :
                /\ all_words_of(SubSeq(out, 1, n)) = Head(segs).words
                /\ \A k \in 1..n : out[k].words # <<>>
                /\ LeftAlone(Tail(segs), SubSeq(out, n + 1, Len(out)),
                             max_duration_seconds)

(***************************************************************************)
(* C12: split_long_segments returns unchanged, as exactly one output       *)
(* segment in its place, every segment whose end - start is <=             *)
(* max_duration_seconds and every segment of 0 or 1 words, whatever its    *)
(* duration.                                                               *)
(***************************************************************************)
C12_WithinBudgetUnchanged ==
    last = "split_long_segments" => LeftAlone(arg, segments, params.max_duration)

\* a one-word segment longer than the ceiling, whose text and bounds are not those of
\* its word, came back as it was
C12_Witness ==
    /\ last = "split_long_segments"
    /\ Len(arg) = 1
    /\ Len(arg[1].words) = 1
    /\ arg[1].end - arg[1].start > params.max_duration
    /\ arg[1].start # arg[1].words[1].start
    /\ arg[1].text # strip(join(arg[1].words))
    /\ segments = arg

(***************************************************************************)
(* C13: the pipeline has no error path: post_process_asr_segments returns  *)
(* a list, without raising, for every segment list and every value of      *)
(* chunk_size, overlap, gap_threshold and max_duration; no precondition    *)
(* such as chunk_size > overlap is required of the caller.                 *)
(***************************************************************************)
C13_NeverRaises == ~raised /\ pc # "raised"

(***************************************************************************)
(* C14: the adapters never raise on malformed raw ASR records: for every   *)
(* raw payload, with non-dict chunks or items, items with missing keys,    *)
(* and items whose text, start, end or timestamp is None or missing, each  *)
(* adapter skips the bad record and returns the segments built from the    *)
(* well-formed records.                                                    *)
(***************************************************************************)
C14_AdaptersNeverRaise == ~raised

\* the indices of items that are among the first i ones
Rank(i, indices) == Cardinality({j \in indices : j <= i})

\* the word items parse_whisper_raw_chunk is given, when they all are dicts with a str
\* under text
WhisperItems ==
    IF input.shape = "whisper" /\ input.data.is_dict /\ input.data.segments.kind = "list"
    THEN input.data.segments.items ELSE <<>>

\* the chunks the Transformers adapters are given
TransformersChunks ==
    IF input.shape = "transformers" /\ input.data.is_dict /\ input.data.chunks.kind = "list"
    THEN input.data.chunks.items ELSE <<>>

AllDictsWithText(items) ==
    \A i \in DOMAIN items : items[i].is_dict /\ items[i].text.kind = "str"

\* the payload does not hold None where its list of items belongs
ListGiven ==
    IF input.shape = "whisper" THEN input.data.segments.kind # "None"
    ELSE input.data.chunks.kind # "None"

\* the one-word segment of a word item
WordSegmentOf(segment_text, word_text, start, end) ==
    ASRSegment(segment_text, start, end, <<WordTimestamp(word_text, start, end)>>)

\* the timestamp kinds an adapter takes: group_whisper_words_into_segments takes
\* tuples, parse_transformers_result_with_words turns lists into tuples first
TakenKinds ==
    IF last = "parse_transformers_result_with_words" THEN {"tuple", "list"} ELSE {"tuple"}

\* the chunks with a timestamp of a taken kind whose entries are both numbers
TimedChunks(kinds) ==
    {i \in DOMAIN TransformersChunks :
        /\ TransformersChunks[i].timestamp.kind \in kinds
        /\ TransformersChunks[i].timestamp.start.kind = "num"
        /\ TransformersChunks[i].timestamp.end.kind = "num"}

\* the word items whose start and end are both numbers
TimedItems ==
    {i \in DOMAIN WhisperItems :
        WhisperItems[i].start.kind = "num" /\ WhisperItems[i].end.kind = "num"}

\* segments holds, in order, one one-word segment per index, built by of(i)
OnePerIndex(indices, of(_)) ==
    /\ Len(segments) = Cardinality(indices)
    /\ \A i \in indices : segments[Rank(i, indices)] = of(i)

WhisperSegmentAsStated(i) ==
    WordSegmentOf(WhisperItems[i].text.str, WhisperItems[i].text.str,
                  input.chunk_start + WhisperItems[i].start.num,
                  input.chunk_start + WhisperItems[i].end.num)

WhisperSegment(i) ==
    WordSegmentOf(strip(WhisperItems[i].text.str), strip(WhisperItems[i].text.str),
                  input.chunk_start + WhisperItems[i].start.num,
                  input.chunk_start + WhisperItems[i].end.num)

TransformersSegment(i) ==
    WordSegmentOf(strip(TransformersChunks[i].text.str), TransformersChunks[i].text.str,
                  input.chunk_start + TransformersChunks[i].timestamp.start.num,
                  input.chunk_start + TransformersChunks[i].timestamp.end.num)

\* what does hold: given a list of items that are dicts with a str text, the adapters
\* return, in input order, one one-word segment per item whose times are both numbers
\* and, for parse_whisper_raw_chunk, whose trimmed text is not empty, and, for the
\* Transformers adapters, whose timestamp is a tuple (or a list, through
\* parse_transformers_result_with_words); times are the item's plus chunk_start;
\* parse_whisper_raw_chunk gives word and segment the trimmed text,
\* group_whisper_words_into_segments gives the word the text as it is
OneSegmentPerTimedWord ==
    /\ (last = "parse_whisper_raw_chunk" /\ ListGiven /\ AllDictsWithText(WhisperItems)) =>
          /\ ~raised
          /\ OnePerIndex({i \in TimedItems : strip(WhisperItems[i].text.str) # <<>>},
                         WhisperSegment)
    /\ (/\ last \in {"parse_transformers_result_with_words",
                     "group_whisper_words_into_segments"}
        /\ ListGiven
        /\ AllDictsWithText(TransformersChunks)) =>
          /\ ~raised
          /\ OnePerIndex(TimedChunks(TakenKinds), TransformersSegment)

(***************************************************************************)
(* C17: the word-per-chunk adapters produce, in input order, exactly one   *)
(* segment per input word item whose start and end are both not None,      *)
(* holding exactly one word with the item's text and the same start and    *)
(* end as the segment; items whose start or end is None are dropped.       *)
(***************************************************************************)
C17_AsStated ==
    (last = "parse_whisper_raw_chunk" /\ ~raised /\ AllDictsWithText(WhisperItems)) =>
        OnePerIndex(TimedItems, WhisperSegmentAsStated)

\* the sentence records and the word records a sentence-per-chunk adapter is given
SentenceRecords ==
    IF input.data.segments.kind = "list" THEN input.data.segments.items ELSE <<>>

WordRecords ==
    IF input.data.words.kind = "list" THEN input.data.words.items ELSE <<>>

NemoSentenceRecords ==
    IF input.data.segment.kind = "list" THEN input.data.segment.items ELSE <<>>

NemoWordRecords ==
    IF input.data.word.kind = "list" THEN input.data.word.items ELSE <<>>

\* every record is a dict with a text that is not blank and two times
AllComplete(records) ==
    \A i \in DOMAIN records :
        /\ records[i].is_dict
        /\ records[i].text.kind = "str"
        /\ strip(records[i].text.str) # <<>>
        /\ records[i].start.kind = "num"
        /\ records[i].end.kind = "num"

\* the words whose interval lies inside the sentence's, widened by the tolerance
WordsInside(sentence, words) ==
    {j \in DOMAIN words :
        /\ words[j].start.num >= sentence.start.num - Tolerance
        /\ words[j].end.num <= sentence.end.num + Tolerance}

\* one segment per sentence, at the sentence's times plus chunk_start, holding in
\* order exactly the words inside it, at their times plus chunk_start
MatchedWithTolerance(sentences, words) ==
    /\ ~raised
    /\ Len(segments) = Len(sentences)
    /\ \A k \in DOMAIN sentences :
        LET inside == WordsInside(sentences[k], words)
        IN  /\ segments[k].start = input.chunk_start + sentences[k].start.num
            /\ segments[k].end = input.chunk_start + sentences[k].end.num
            /\ Len(segments[k].words) = Cardinality(inside)
            /\ \A j \in inside :
                LET w == segments[k].words[Rank(j, inside)]
                IN  /\ w.start = input.chunk_start + words[j].start.num
                    /\ w.end = input.chunk_start + words[j].end.num

\* what does hold: parse_parakeet_raw_chunk matches with the tolerance
ParakeetMatchesWithTolerance ==
    (/\ last = "parse_parakeet_raw_chunk"
     /\ input.data.is_dict
     /\ input.data.words.kind # "None"
     /\ AllComplete(SentenceRecords)
     /\ AllComplete(WordRecords)) =>
        MatchedWithTolerance(SentenceRecords, WordRecords)

(***************************************************************************)
(* C16: every sentence-per-chunk adapter attaches a word to a sentence's   *)
(* segment exactly when the word's interval lies inside the sentence's     *)
(* interval widened by 0.01 s on both bounds, and the resulting word and   *)
(* segment times are the raw times plus chunk_start; this holds for        *)
(* parse_parakeet_raw_chunk and for parse_nemo_result_with_words /         *)
(* parse_nemo_segment alike.                                               *)
(***************************************************************************)
C16_WordsMatchedWithTolerance ==
    /\ ParakeetMatchesWithTolerance
    /\ (/\ last = "parse_nemo_result_with_words"
        /\ input.data.has_timestamp
        /\ input.data.segment.kind = "list"
        /\ input.data.word.kind = "list"
        /\ AllComplete(NemoSentenceRecords)
        /\ AllComplete(NemoWordRecords)) =>
           MatchedWithTolerance(NemoSentenceRecords, NemoWordRecords)

(***************************************************************************)
(* C15: every stage maps the empty list to the empty list:                 *)
(* resolve_overlap_conflicts, the gap stage (group_segments_by_gap or      *)
(* split_segments_by_word_gap), split_long_segments, the projection and    *)
(* post_process_asr_segments as a whole return an empty list, without      *)
(* raising, when given an empty segment list, whatever the parameters.     *)
(***************************************************************************)
C15_EmptyToEmpty ==
    input = <<>> =>
        /\ ~raised
        /\ pc # "raised"
        /\ segments = <<>>
        /\ output = <<>>

\* the pipeline ran to its end on the empty list, under the geometry
\* chunk_size = overlap that makes it raise on overlapping segments
C15_Witness ==
    /\ input = <<>>
    /\ pc = "done"
    /\ last = "split_long_segments"
    /\ params.chunk_size = params.overlap
    /\ output = <<>>

\* the segments whose trimmed text is not empty
WithText(segs) == {i \in DOMAIN segs : strip(segs[i].text) # <<>>}

(***************************************************************************)
(* C18: projection (asr_segments_to_transcript_segments,                   *)
(* asr_segments_to_vtt_cues) emits, in input order, exactly one output     *)
(* record per input segment whose trimmed text is non-empty, carrying that *)
(* segment's start and end unchanged and its trimmed text, with the id     *)
(* left as the empty string; segments whose trimmed text is empty are      *)
(* dropped and nothing else is dropped.                                    *)
(***************************************************************************)
C18_OneRecordPerSegmentWithText ==
    last \in {"asr_segments_to_transcript_segments", "asr_segments_to_vtt_cues"} =>
        /\ Len(output) = Cardinality(WithText(input))
        /\ \A i \in WithText(input) :
            LET record == output[Rank(i, WithText(input))]
            IN  /\ record.id = ""
                /\ record.startTime = input[i].start
                /\ record.endTime = input[i].end
                /\ record.text = strip(input[i].text)

\* of a blank segment and a later one with padded text, the second was projected
C18_Witness ==
    /\ last = "asr_segments_to_transcript_segments"
    /\ Len(input) = 2
    /\ input[1].text = <<" ">>
    /\ input[2].text = <<" ", "a">>
    /\ input[2].start > 0
    /\ Len(output) = 1
    /\ output[1].text = <<"a">>
    /\ output[1].startTime = input[2].start

\* twice the midpoint of the overlap region: of [later chunk's start, earlier
\* chunk's start + chunk_size] when both segments are tagged, else of [B.start, A.end]
TwiceCut(a, b) ==
    IF a.chunk_start # None /\ b.chunk_start # None
    THEN b.chunk_start[1] + a.chunk_start[1] + params.chunk_size
    ELSE b.start + a.end

\* how often word w is among words, under the condition keep
Copies(w, words, keep(_)) == Cardinality({i \in DOMAIN words : words[i] = w /\ keep(words[i])})

\* the merged words are those of A before the cut and those of B from the cut on
CutAtMidpoint(a, b, merged) ==
    LET before(w) == 2 * w.start < TwiceCut(a, b)
        from(w) == 2 * w.start >= TwiceCut(a, b)
        any(w) == TRUE
    IN  \A w \in Range(a.words) \cup Range(b.words) \cup Range(merged.words) :
            Copies(w, merged.words, any) = Copies(w, a.words, before) + Copies(w, b.words, from)

SortedByStart(words) ==
    \A i \in 1..(Len(words) - 1) : words[i].start <= words[i + 1].start

\* the outcome the repository's two tests of the merge assert
ZipTestsPass ==
    /\ (last = "zip_words_in_overlapping_segments" /\ arg = <<zip_seg1, zip_seg2>>) =>
          /\ segments[1].words = SubSeq(zip_seg1.words, 1, 3) \o SubSeq(zip_seg2.words, 2, 3)
          /\ segments[1].start = 0
          /\ segments[1].end = 80
          /\ segments[1].text = zip_seg1.text \o <<" ", "o", "n">>
    /\ (last = "zip_words_in_overlapping_segments" /\ arg = <<fallback_seg1, fallback_seg2>>) =>
          segments[1].words = fallback_seg1.words \o SubSeq(fallback_seg2.words, 2, 2)

(***************************************************************************)
(* C19: the zip merge of two overlapping segments A (earlier) and B        *)
(* (later) cuts at the midpoint of the overlap region, computed from the   *)
(* chunks' windows when both segments carry chunk_start tags and otherwise *)
(* as (B.start + A.end) / 2: it keeps every word of A whose start is       *)
(* strictly before the midpoint and every word of B whose start is at or   *)
(* after the midpoint, and the merged segment's text, start and end are    *)
(* recomputed from the resulting time-sorted word list.                    *)
(***************************************************************************)
C19_CutAtMidpointAndRecomputed ==
    (last = "zip_words_in_overlapping_segments" /\ segments[1].words # <<>>) =>
        LET merged == segments[1]
        IN  /\ CutAtMidpoint(arg[1], arg[2], merged)
            /\ SortedByStart(merged.words)
            /\ merged.text = strip(join(merged.words))
            /\ merged.start = merged.words[1].start
            /\ merged.end = merged.words[Len(merged.words)].end

\* the part of C19 about the words, the text and the start, which holds
CutAtMidpointTextAndStart ==
    (last = "zip_words_in_overlapping_segments" /\ segments[1].words # <<>>) =>
        LET merged == segments[1]
        IN  /\ CutAtMidpoint(arg[1], arg[2], merged)
            /\ SortedByStart(merged.words)
            /\ merged.text = strip(join(merged.words))
            /\ merged.start = merged.words[1].start

BoundsOfWords(seg) ==
    /\ seg.words # <<>>
    /\ seg.start = seg.words[1].start
    /\ seg.end = seg.words[Len(seg.words)].end

\* what does hold: a segment a split stage returns is one of its input or has the
\* bounds of its words
SplitBoundsRecomputed ==
    (/\ ReturnedFrom("split_segments_by_word_gap") \/ ReturnedFrom("split_long_segments")
     /\ ~twice) =>
        \A k \in DOMAIN segments :
            segments[k] \in Range(arg) \/ BoundsOfWords(segments[k])

(***************************************************************************)
(* C21: every segment newly produced by a split or merge operation         *)
(* (group_segments_by_gap, split_segments_by_word_gap,                     *)
(* split_long_segments) has start exactly equal to its first word's start  *)
(* and end exactly equal to its last word's end, for every input,          *)
(* also when the input segments' bounds differ from their words' bounds.   *)
(* Every segment group_segments_by_gap returns is newly produced.          *)
(***************************************************************************)
C21_BoundsRecomputed ==
    /\ SplitBoundsRecomputed
    /\ (ReturnedFrom("group_segments_by_gap") /\ ~twice) =>
          \A k \in DOMAIN segments :
              segments[k].words # <<>> => BoundsOfWords(segments[k])

\* the segments of S, a list in order of start, that open a group: the first, and
\* every one that starts more than the threshold after the end of the one before it
Openers(S, max_gap_seconds) ==
    {i \in DOMAIN S : i = 1 \/ S[i].start - S[i - 1].end > max_gap_seconds}

\* the index in S of the segment that opens group k (one past the end of S for the
\* group after the last)
OpenerOf(S, k, max_gap_seconds) ==
    IF k > Cardinality(Openers(S, max_gap_seconds)) THEN Len(S) + 1
    ELSE CHOOSE i \in Openers(S, max_gap_seconds) : Rank(i, Openers(S, max_gap_seconds)) = k

RECURSIVE SegmentsIn(_, _)
SegmentsIn(heap, objects) ==
    IF objects = <<>> THEN <<>>
    ELSE <<ASRSegment(Head(objects).text, Head(objects).start, Head(objects).end,
                      heap[Head(objects).words])>>
         \o SegmentsIn(heap, Tail(objects))

\* the stage on objects returns what the stage on values returns
SameAsOnValues ==
    last # "none" =>
        SegmentsIn(segments.heap, segments.heap[segments.id]) =
            CASE last = "group_segments_by_gap" ->
                     group_segments_by_gap(input.of, params.gap_threshold)
              [] last = "split_segments_by_word_gap" ->
                     split_segments_by_word_gap(input.of, params.gap_threshold)
              [] last = "split_long_segments" ->
                     split_long_segments(input.of, params.max_duration)
              [] OTHER ->
                     resolve_overlap_conflicts(input.of, params.chunk_size,
                                               params.overlap).value

(***************************************************************************)
(* C23: no stage mutates its input: after resolve_overlap_conflicts,       *)
(* group_segments_by_gap, split_segments_by_word_gap or                    *)
(* split_long_segments returns, the input list and every input segment's   *)
(* text, start, end and words list are as they were before the call; each  *)
(* segment returned is an input segment passed through as is, or a newly   *)
(* created segment whose words list is a new list, not shared with another *)
(* returned segment.                                                       *)
(***************************************************************************)
C23_InputNotMutated ==
    last # "none" =>
        LET before == input.heap
            after == segments.heap
            returned == after[segments.id]
        IN  /\ \A id \in DOMAIN before : after[id] = before[id]
            /\ segments.id \notin DOMAIN before
            /\ \A k \in DOMAIN returned :
                \/ /\ returned[k].oid \in DOMAIN before[input.id]
                   /\ returned[k] = before[input.id][returned[k].oid]
                \/ /\ returned[k].oid = 0
                   /\ returned[k].words \notin DOMAIN before
                   /\ \A j \in DOMAIN returned : j # k => returned[j].words # returned[k].words

\* group_segments_by_gap merged two of the caller's segments, each with words,
\* into one new segment
C23_Witness ==
    /\ last = "group_segments_by_gap"
    /\ Len(input.heap[input.id]) = 2
    /\ input.heap[2] # <<>>
    /\ input.heap[3] # <<>>
    /\ Len(segments.heap[segments.id]) = 1
    /\ segments.heap[segments.heap[segments.id][1].words] = input.heap[2] \o input.heap[3]

\* what does hold: the two stages that sort return their segments in order of start
SortedAfterResolveAndGroup ==
    (ReturnedFrom("resolve_overlap_conflicts") \/ ReturnedFrom("group_segments_by_gap")) =>
        SortedByStart(segments)

(***************************************************************************)
(* C24: the output list of every stage (overlap resolution, grouping, gap  *)
(* splitting, duration bounding) is in non-decreasing order of segment     *)
(* start whatever the order of the input list: order is re-derived by      *)
(* sorting on start and is not inherited from the input.                   *)
(***************************************************************************)
C24_OutputSortedByStart ==
    (last # "none" /\ ~raised) => SortedByStart(segments)

\* the index, among the words of the source segment, of the last word of piece k
LastWordOf(pieces, k) == Len(all_words_of(SubSeq(pieces, 1, k)))

\* the words from index from on that end within the budget of the start of word from
WithinBudgetFrom(words, from, max_duration_seconds) ==
    {i \in from..Len(words) : words[i].end - words[from].start <= max_duration_seconds}

\* the words after index from that end over the budget of the start of word from
OverBudgetAfter(words, from, max_duration_seconds) ==
    {i \in (from + 1)..Len(words) :
        words[i].end - words[from].start > max_duration_seconds}

\* one segment over budget, of two words or more, was split
OneLongSegmentSplit ==
    /\ last = "split_long_segments"
    /\ ~twice
    /\ Len(arg) = 1
    /\ arg[1].end - arg[1].start > params.max_duration
    /\ Len(arg[1].words) >= 2
    /\ all_words_of(segments) = arg[1].words

C26_CountsChangeOneWay ==
    /\ ReturnedFrom("resolve_overlap_conflicts") => Len(segments) <= Len(arg)
    /\ ReturnedFrom("split_segments_by_word_gap") => Len(segments) >= Len(arg)
    /\ ReturnedFrom("split_long_segments") => Len(segments) >= Len(arg)

\* resolve_overlap_conflicts was given three segments and returned fewer
C26_Witness ==
    /\ ReturnedFrom("resolve_overlap_conflicts")
    /\ ~twice
    /\ Len(arg) = 3
    /\ Len(segments) < 3

(***************************************************************************)
(* C27: duration is bounded after the duration stage: every segment in the *)
(* output of split_long_segments(S, max_duration_seconds) either has       *)
(* end - start <= max_duration_seconds or has at most one word, for every  *)
(* input list S, word lists that are not in time order included.           *)
(***************************************************************************)
C27_DurationBounded ==
    ReturnedFrom("split_long_segments") =>
        \A k \in DOMAIN segments :
            \/ segments[k].end - segments[k].start <= params.max_duration
            \/ Len(segments[k].words) <= 1

\* a segment over budget whose words are not in time order was split, and a piece
\* of two words came out
C27_Witness ==
    /\ ReturnedFrom("split_long_segments")
    /\ ~twice
    /\ Len(arg) = 1
    /\ arg[1].end - arg[1].start > params.max_duration
    /\ \E i \in 1..(Len(arg[1].words) - 1) : arg[1].words[i + 1].start < arg[1].words[i].start
    /\ Len(segments) >= 2
    /\ \E k \in DOMAIN segments : Len(segments[k].words) = 2

(***************************************************************************)
(* C28: the output of resolve_overlap_conflicts is free of overlaps        *)
(* between neighbours after any sequence of append and replace steps of    *)
(* its scan: for every input list and chunk geometry, each output          *)
(* segment's start is >= the end of the output segment before it, also     *)
(* when an accepted segment was replaced by a later candidate.             *)
(***************************************************************************)
C28_NeighboursDoNotOverlap ==
    ReturnedFrom("resolve_overlap_conflicts") =>
        \A k \in 1..(Len(segments) - 1) : segments[k + 1].start >= segments[k].end

\* of three segments in order of start the second was accepted after the first and
\* then replaced by the third, which it overlaps
C28_Witness ==
    /\ ReturnedFrom("resolve_overlap_conflicts")
    /\ ~twice
    /\ Len(arg) = 3
    /\ LET S == sorted_by_start(arg)
       IN  /\ S[2].start >= S[1].end
           /\ S[3].start < S[2].end
           /\ S[3] # S[2]
           /\ segments = <<S[1], S[3]>>

\* the chunks whose window [k * stride, k * stride + chunk_size] holds the segment
ChunksHolding(seg, chunk_size, overlap) ==
    LET stride == chunk_size - overlap
    IN  {k \in 0..MaxTime : k * stride <= seg.start /\ seg.end <= k * stride + chunk_size}

\* resolve_overlap_conflicts returned from a call under a geometry with a stride
ResolvedUnderStride ==
    /\ ReturnedFrom("resolve_overlap_conflicts")
    /\ ~twice
    /\ params.chunk_size - params.overlap > 0

\* what does hold: the inferred index is not below that of a chunk that holds the
\* segment, and the distance to the edge of the inferred window is not negative
InferredWindowHoldsSegment ==
    ResolvedUnderStride =>
        \A i \in DOMAIN arg :
            \A k \in ChunksHolding(arg[i], params.chunk_size, params.overlap) :
                /\ chunk_idx_of(arg[i], params.chunk_size, params.overlap) >= k
                /\ dist_to_edge(arg[i], params.chunk_size, params.overlap) >= 0

(***************************************************************************)
(* C29: the chunk window that resolve_overlap_conflicts attributes to a    *)
(* segment is the window of the chunk that produced it: for every chunk    *)
(* index k and every segment transcribed from chunk k, i.e. with           *)
(* k*stride <= start and end <= k*stride + chunk_size where                *)
(* stride = chunk_size - overlap > 0, the inferred index                   *)
(* int(start / stride) equals k, so the distance to the chunk edge is      *)
(* measured against chunk k's own window and is never negative.            *)
(***************************************************************************)
C29_InferredChunkIsProducer ==
    ResolvedUnderStride =>
        \A i \in DOMAIN arg :
            \A k \in ChunksHolding(arg[i], params.chunk_size, params.overlap) :
                /\ chunk_idx_of(arg[i], params.chunk_size, params.overlap) = k
                /\ dist_to_edge(arg[i], params.chunk_size, params.overlap) >= 0


\* the returned segments holding a word at the record's times plus chunk_start
SentencesHolding(word) ==
    {k \in DOMAIN segments :
        \E n \in DOMAIN segments[k].words :
            /\ segments[k].words[n].word = strip(word.text.str)
            /\ segments[k].words[n].start = input.chunk_start + word.start.num
            /\ segments[k].words[n].end = input.chunk_start + word.end.num}

\* parse_parakeet_raw_chunk has returned from a list of well-formed sentences
ParakeetParsedSentences ==
    /\ last = "parse_parakeet_raw_chunk"
    /\ ~raised
    /\ input.data.is_dict
    /\ input.data.words.kind = "list"
    /\ SentenceRecords # <<>>
    /\ AllComplete(SentenceRecords)

(***************************************************************************)
(* C30: in parse_parakeet_raw_chunk every well-formed word of the chunk's  *)
(* word list (text not empty, start and end present) is attached to        *)
(* exactly one of the returned sentence segments, never to two and never   *)
(* to none, for every list of sentences with non-empty text.               *)
(***************************************************************************)
C30_EachWordInExactlyOneSentence ==
    ParakeetParsedSentences =>
        \A j \in DOMAIN WordRecords :
            AllComplete(<<WordRecords[j]>>) =>
                Cardinality(SentencesHolding(WordRecords[j])) = 1

====
